---- MODULE Spec2Model ----
(***************************************************************************)
(* A model of the PocketFlow TypeScript engine (src/unnamed/part_011).     *)
(* That file holds two implementations of the same API: a compact one      *)
(* (lines 1-151) and an expanded one (lines 152-470).  The variable impl    *)
(* says which of the two a behaviour runs.                                  *)
(*                                                                         *)
(* The engine is modelled as a stack machine.  Every call of _run or       *)
(* _runAsync is a frame; the hooks a user overrides (prep, exec,           *)
(* execFallback, post and their async forms) are the steps, and what a     *)
(* hook returns or throws is drawn from small sets.  The log records every *)
(* hook call with what it was given and what it saw.                       *)
(***************************************************************************)
EXTENDS Integers, Sequences, FiniteSets, TLC

(* ------------------------------ bounds -------------------------------- *)

\* Largest maxRetries a node is constructed with.
MaxRetries == 3

\* Most next() calls made while a graph is wired.
MaxWires == 2

\* Most steps one traversal of a flow may take (caps loops in the graph).
MaxSteps == 3

\* Most parameter-sets a batch flow's prep returns.
MaxBatch == 2

\* Most searches the agent's Decide node asks for before it answers.
MaxSearches == 2

\* Most items a batch node's prep returns.
MaxItems == 2
MaxRuns == 2

(* ------------------------------ values -------------------------------- *)

UNDEF == "undefined"
NULL == "null"
NoNode == "none"
ABSENT == "absent"

\* The objects the caller constructs: three nodes and two flows.
NodeIds == {"A", "B", "C"}
FlowIds == {"F", "G"}
Objs == NodeIds \cup FlowIds

SyncNodeClasses == {"Node", "BatchNode"}
AsyncNodeClasses == {"AsyncNode", "AsyncBatchNode", "AsyncParallelBatchNode"}
SyncFlowClasses == {"Flow", "BatchFlow"}
AsyncFlowClasses == {"AsyncFlow", "AsyncBatchFlow", "AsyncParallelBatchFlow"}
FlowClasses == SyncFlowClasses \cup AsyncFlowClasses

\* What the hooks of a user's subclass may return or throw.
PrepVals == {"p1", "p2"}
ExecVals == {"r1", "r2"}
Errors == {"e1", "e2"}
FallbackVals == {"f1"}

\* Action: string | null | undefined.  "constructor" stands for the names
\* every plain object inherits from Object.prototype.
Labels == {"default", "x"}
InheritedKeys == {"constructor"}
Actions == {UNDEF, NULL, ""} \cup Labels \cup InheritedKeys

\* The labels of the agent example (docs/design_pattern/agent.mdc).
AgentLabels == {"search", "answer", "decide"}
AllLabels == Labels \cup AgentLabels \cup InheritedKeys

\* The items a batch node's prep may list, and what its exec makes of one
\* (the tests' TestBatchNode: `processed-${item}`).
Items == {"item1", "item2"}
Processed(item) ==
    CASE item = "item1" -> "processed-item1"
      [] item = "item2" -> "processed-item2"
      [] OTHER -> "processed-other"

ParamKeys == {"filename", "type"}
NoParams == [k \in ParamKeys |-> ABSENT]

\* The parameter-sets a batch flow's prep may list.
ParamSets == {[filename |-> "x", type |-> "inner"],
              [filename |-> "y", type |-> ABSENT]}

\* What setParams is called with before a run: on the outer flow, on a
\* nested flow and on a node (docs/core_abstraction/communication.mdc:
\* node.setParams({filename: "doc1.txt"}), flow.setParams({filename:
\* "doc2.txt"})).
SettableParams ==
    {<<"F", [filename |-> ABSENT, type |-> "outer"]>>,
     <<"F", [filename |-> "doc2", type |-> ABSENT]>>,
     <<"G", [filename |-> ABSENT, type |-> "outer"]>>,
     <<"A", [filename |-> "doc1", type |-> ABSENT]>>}

\* The parameter-sets the prep of a nested batch flow lists for the
\* parameters it is given (docs/core_abstraction/batch.mdc, FileBatchFlow:
\* the files of this.params.directory).
FilesOf(par) ==
    IF par.type = "inner"
    THEN <<[filename |-> "y", type |-> ABSENT]>>
    ELSE <<[filename |-> "x", type |-> "inner"],
           [filename |-> "y", type |-> ABSENT]>>

EmptyStore == [data |-> UNDEF, summary |-> UNDEF, count |-> 0, results |-> <<>>]

\* LoadData and Summarize (docs/core_abstraction/communication.mdc): the
\* text LoadData.post stores, and what Summarize.exec makes of its input.
Text == "abc"
Summary(p) ==
    CASE p = Text -> "processed:abc"
      [] p = UNDEF -> "processed:undefined"
      [] OTHER -> "processed:other"

VARIABLES
    impl,        \* "compact" (lines 1-151) or "expanded" (lines 152-470)
    cls,         \* cls[o]: the engine class object o extends
    maxRetries,  \* maxRetries[o], wait[o]: the constructor's arguments
    wait,
    user,        \* user[o]: which hooks the user's subclass overrides, and how
    startNode,   \* startNode[f]: a flow's start node
    successors,  \* successors[o][label]: the wired successor, or NoNode
    objs,        \* objs[o] = [params, curRetry]: the constructed objects' fields
    shared,      \* the shared store passed to run
    tasks,       \* tasks[t] = [stack, st, val]: call stack and outcome of task t
    log,         \* every hook call and warning so far, in order
    nextId,      \* the next frame id (one per _run / _runAsync call)
    wires        \* the number of next() calls made so far

\* What no step of a run changes.
static == <<impl, cls, maxRetries, wait, user, startNode, wires>>
vars == <<impl, cls, maxRetries, wait, user, startNode, successors, objs,
          shared, tasks, log, nextId, wires>>

(* ------------------------------ frames -------------------------------- *)

\* One call of _run / _runAsync on object n.  orig says that the call is on
\* the constructed object itself (node.run) rather than on a clone.
\* pid, trav and step place it in a traversal: the frame of the flow that
\* called it, which of that flow's traversals (1 unless the flow is a batch
\* flow), and the number of the traversal step it is.
NewFrame(id, n, mode, orig, par, cr, pid, trav, step) ==
    [id |-> id, n |-> n, mode |-> mode, orig |-> orig, par |-> par, cr |-> cr,
     pid |-> pid, trav |-> trav, step |-> step, pc |-> "prep", aw |-> FALSE,
     p1 |-> UNDEF, p2 |-> UNDEF, er |-> UNDEF, err |-> UNDEF, i |-> 0,
     curr |-> NoNode, last |-> NULL, op |-> NoParams, nsteps |-> 0,
     bps |-> <<>>, bi |-> 0, pl |-> <<>>, res |-> <<>>, base |-> 0]

Main == 1
Stack(t) == tasks[t].stack
Top(t) == Head(tasks[t].stack)

\* An event of the log: a hook call on frame f with arguments a1, a2 that
\* returned (ok) or threw (~ok) out, seeing curRetry, params and the store.
Ev(op, f, a1, a2, out, ok) ==
    [op |-> op, n |-> f.n, id |-> f.id, a1 |-> a1, a2 |-> a2, out |-> out,
     ok |-> ok, cr |-> f.cr, par |-> f.par, sh |-> shared, pid |-> f.pid,
     trav |-> f.trav, step |-> f.step, keys |-> {}, list |-> <<>>,
     item |-> f.bi, res |-> <<>>]

\* A console.warn: kind says which, a1 the action it names, keys the labels.
Warning(kind, n, a, keys) ==
    [op |-> "warn", n |-> n, id |-> 0, a1 |-> a, a2 |-> kind, out |-> UNDEF,
     ok |-> TRUE, cr |-> 0, par |-> NoParams, sh |-> shared, pid |-> 0,
     trav |-> 0, step |-> 0, keys |-> keys, list |-> <<>>,
     item |-> 0, res |-> <<>>]

SetTop(t, f) == [tasks EXCEPT ![t].stack = <<f>> \o Tail(@)]

\* The top frame returns a to its caller: to the _orch loop of the frame
\* below (lastAction = curr._run(shared)), or out of run().
ReturnFrom(t, a) ==
    LET rest == Tail(Stack(t)) IN
    IF rest = <<>>
    THEN [tasks EXCEPT ![t] = [stack |-> <<>>, st |-> "returned", val |-> a]]
    ELSE [tasks EXCEPT ![t].stack =
             <<[Head(rest) EXCEPT !.last = a, !.pc = "next"]>> \o Tail(rest)]

\* A slip in _orch: a try around curr._run(shared) that drops the error and
\* goes on with the lookup of the next node.
ThrowFromSwallowed(t, e) ==
    LET rest == Tail(Stack(t)) IN
    IF rest = <<>>
    THEN [tasks EXCEPT ![t] = [stack |-> <<>>, st |-> "threw", val |-> e]]
    ELSE [tasks EXCEPT ![t].stack =
             <<[Head(rest) EXCEPT !.last = UNDEF, !.pc = "next"]>> \o Tail(rest)]

\* An error nothing catches: no frame has a try around _run, prep, post or
\* execFallback, so it unwinds every frame and leaves run().
ThrowFrom(t, e) ==
    [tasks EXCEPT ![t] = [stack |-> <<>>, st |-> "threw", val |-> e]]

\* Writes of this.curRetry land on the constructed object when the frame
\* runs it directly, and on the clone otherwise.
ObjsWith(f) ==
    IF f.orig THEN [objs EXCEPT ![f.n].curRetry = f.cr] ELSE objs

\* A slip in the scheduling: traversals run on threads of their own, so
\* that any of them may step at any time.
YieldedAnytime(u) == TRUE

\* Only one task runs at a time: a task steps when every other task is
\* suspended at an await (of a hook's promise, of Promise.all, or of one
\* item's _exec) or has finished.
Yielded(u) ==
    IF tasks[u].st # "running" THEN TRUE
    ELSE Top(u).aw \/ Top(u).pc \in {"join", "joinitems", "awaititem"}
\* Task u is inside pr.map(...) or items.map(...), in the _orchAsync or
\* _exec call that task t runs: the call it made last, which has not
\* reached an await yet.
InCall(u, t) ==
    IF tasks[u].st # "running" THEN FALSE
    ELSE Top(u).pc \in {"fork", "items"} /\ t = Len(tasks)
CanStep(t) ==
    /\ tasks[t].st = "running"
    /\ ~Top(t).aw
    /\ \A u \in DOMAIN tasks : u # t => (IF Yielded(u) THEN TRUE ELSE InCall(u, t))

(* --------------------------- the user's hooks ------------------------- *)

IsAsyncClass(n) == cls[n] \in AsyncNodeClasses \cup AsyncFlowClasses

\* A subclass of an async class overrides the async hooks (prepAsync, ...),
\* a subclass of a sync class the sync ones; the other family keeps the
\* engine's defaults.
Beh(f) ==
    IF (f.mode = "async") = IsAsyncClass(f.n) THEN user[f.n].beh ELSE "default"

\* BatchNode._exec hands exec one item of prep's list at a time; Node._exec
\* hands it prepRes.
IsBatchNode(n) == cls[n] = "BatchNode"

\* A slip in BatchNode._exec: every call is handed the first item.
ExecArgFirst(f) == IF IsBatchNode(f.n) THEN f.bps[1] ELSE f.p2

\* AsyncBatchNode and AsyncParallelBatchNode hand super._exec one item each.
IsAsyncBatchNode(n) == cls[n] \in {"AsyncBatchNode", "AsyncParallelBatchNode"}

\* Promise.all(items.map(item => super._exec(item))) starts every item's
\* _exec before it awaits any: AsyncParallelBatchNode, and the compact
\* AsyncBatchNode.  The expanded AsyncBatchNode awaits each item's _exec
\* inside its for loop.
ItemsInParallel(n) ==
    \/ cls[n] = "AsyncParallelBatchNode"
    \/ cls[n] = "AsyncBatchNode" /\ impl = "compact"

ExecArg(f) ==
    IF IsBatchNode(f.n) \/ IsAsyncBatchNode(f.n) THEN f.bps[f.bi] ELSE f.p2

\* The lists of at most MaxItems items.
RECURSIVE ItemLists(_)
ItemLists(k) ==
    IF k = 0 THEN {<<>>}
    ELSE ItemLists(k - 1) \cup
         {Append(l, x) : l \in {y \in ItemLists(k - 1) : Len(y) = k - 1},
                         x \in Items}

\* prep(shared): what it may return.
PrepResults(f) ==
    CASE Beh(f) = "free" -> PrepVals
      [] Beh(f) \in {"reads", "step", "summarize", "search"} -> {shared.data}
      [] Beh(f) \in {"decide", "answer", "incr"} -> {shared.count}
      [] Beh(f) = "param" -> {f.par.filename}
      [] OTHER -> {UNDEF}

\* The same with the list a batch node's prep returns: a list of items,
\* or nothing.
NodePrepResults(f) ==
    CASE Beh(f) = "items" \/ (Beh(f) = "listed" /\ f.pc = "prep") ->
           {[val |-> "list", list |-> l] : l \in ItemLists(MaxItems)}
           \cup {[val |-> UNDEF, list |-> <<>>]}
      [] Beh(f) = "listed" /\ f.pc # "prep" ->
           {[val |-> f.p1, list |-> f.pl]}
      [] OTHER -> {[val |-> v, list |-> <<>>] : v \in PrepResults(f)}

\* exec(prepRes): what it may return, and what it may throw.
ExecReturns(f) ==
    CASE Beh(f) = "free" -> ExecVals
      [] Beh(f) \in {"reads", "step", "search", "answer", "param"} -> {"r1"}
      [] Beh(f) = "summarize" -> {Summary(f.p2)}
      [] Beh(f) \in {"items", "listed"} -> {Processed(ExecArg(f))}
      [] Beh(f) = "incr" -> {f.p2 + 1}
      [] Beh(f) = "decide" ->
           IF f.p2 < MaxSearches THEN {"search", "answer"} ELSE {"answer"}
      [] OTHER -> {UNDEF}

ExecThrows(f) ==
    CASE Beh(f) = "free" -> Errors
      [] Beh(f) \in {"reads", "step", "decide", "items", "listed"} -> {"e1"}
      [] OTHER -> {}

\* execFallback(prepRes, exc): not overridden it rethrows exc.
FallbackOutcomes(f) ==
    IF user[f.n].fb /\ Beh(f) # "default"
    THEN {[ok |-> TRUE, val |-> v] : v \in FallbackVals}
    ELSE {[ok |-> FALSE, val |-> f.err]}

\* A slip in the merge: the flow's own value wins over the parameter-set's.
MergeOwnWins(a, b) == [k \in ParamKeys |-> IF a[k] # ABSENT THEN a[k] ELSE b[k]]

\* A slip in _orch: each node is run on a copy of the store, so that what
\* its post writes is lost.
PostStoreOnCopy(f) == shared

\* post(shared, prepRes, execRes): the store it leaves.  An overriding
\* post records execRes and counts its call; LoadData stores its text,
\* Summarize the summary; the agent's Decide stores the search term,
\* Search adds a result to the context and Answer stores the answer.  A
\* counting node reads shared.count in prep, adds one in exec and writes
\* the sum back in post.
PostStore(f) ==
    CASE Beh(f) \in {"free", "reads", "step"} ->
           [shared EXCEPT !.data = f.er, !.count = @ + 1]
      [] Beh(f) = "load" -> [shared EXCEPT !.data = Text]
      [] Beh(f) \in {"summarize", "answer"} -> [shared EXCEPT !.summary = f.er]
      [] Beh(f) = "decide" ->
           IF f.er = "search" THEN [shared EXCEPT !.data = "term"] ELSE shared
      [] Beh(f) = "search" -> [shared EXCEPT !.count = @ + 1]
      [] Beh(f) \in {"items", "listed"} -> [shared EXCEPT !.results = f.res]
      [] Beh(f) = "incr" -> [shared EXCEPT !.count = f.er]
      [] Beh(f) = "param" -> [shared EXCEPT !.results = Append(@, f.par)]
      [] OTHER -> shared

\* The action post returns.  Not overridden, BaseNode.post returns
\* undefined and Flow.post execRes.
PostActions(f) ==
    CASE Beh(f) \in {"free", "reads"} -> Actions
      [] Beh(f) = "step" -> {UNDEF, "x"}
      [] Beh(f) = "summarize" -> {"default"}
      [] Beh(f) = "decide" -> {f.er}
      [] Beh(f) = "search" -> {"decide"}
      [] Beh(f) \in {"load", "answer", "items", "listed", "param"} -> {UNDEF}
      [] Beh(f) = "route" -> {UNDEF, "x"}
      [] cls[f.n] \in FlowClasses -> {f.er}
      [] OTHER -> {UNDEF}

(* -------------------------- Node: _run, _exec ------------------------- *)

IsNode(n) == cls[n] \in SyncNodeClasses \cup AsyncNodeClasses
IsAsyncNode(n) == cls[n] \in AsyncNodeClasses
IsFlow(n) == cls[n] \in FlowClasses

\* A slip in run's test: only a successor wired under "default" counts.
HasSuccessorsDefaultOnly(n) == successors[n]["default"] # NoNode

\* Object.keys(this.successors).length > 0
HasSuccessors(n) == \E l \in DOMAIN successors[n] : successors[n][l] # NoNode
OwnKeys(n) == {l \in DOMAIN successors[n] : successors[n][l] # NoNode}

\* A slip in the loop: a do-while, whose body runs once at the least.
LoopCondOnceAtLeast(f) == f.cr < maxRetries[f.n] \/ f.cr = 0

\* for (this.curRetry = 0; this.curRetry < this.maxRetries; this.curRetry++)
LoopCond(f) == f.cr < maxRetries[f.n]

\* A slip in the final-attempt test: compares with maxRetries itself.
IsFinalAttemptOffByOne(f) == f.cr = maxRetries[f.n]

\* if (this.curRetry === this.maxRetries - 1)
IsFinalAttempt(f) == f.cr = maxRetries[f.n] - 1

\* A slip in BatchNode._exec: items || [undefined], one call for no items.
EnterExecPadded(f) ==
    IF IsBatchNode(f.n)
    THEN [f EXCEPT !.bps = IF @ = <<>> THEN <<UNDEF>> ELSE @,
                   !.res = <<>>, !.bi = 1, !.cr = 0, !.pc = "exec"]
    ELSE [f EXCEPT !.cr = 0, !.pc = "exec"]

\* A slip in _exec: the loop goes on from the curRetry the object holds.
EnterExecKeeps(f) ==
    IF IsBatchNode(f.n)
    THEN IF f.bps = <<>>
         THEN [f EXCEPT !.res = <<>>, !.er = "list", !.pc = "post"]
         ELSE [f EXCEPT !.res = <<>>, !.bi = 1, !.pc = "exec"]
    ELSE [f EXCEPT !.pc = "exec"]

\* Node._exec is entered: the for loop's initialiser.  BatchNode._exec
\* enters it for the first of items || [], if there is one.
EnterExec(f) ==
    IF IsBatchNode(f.n)
    THEN IF f.bps = <<>>
         THEN [f EXCEPT !.res = <<>>, !.er = "list", !.pc = "post"]
         ELSE [f EXCEPT !.res = <<>>, !.bi = 1, !.cr = 0, !.pc = "exec"]
    ELSE [f EXCEPT !.cr = 0, !.pc = "exec"]

\* _run once prep has returned v.  Expanded: const p = this.prep(shared),
\* used for _exec and for post.  Compact: post(shared, this.prep(shared),
\* this._exec(this.prep(shared))): the first call's value goes to post and
\* a second call's value to _exec.
AfterPrep(f, v) ==
    IF impl = "expanded"
    THEN EnterExec([f EXCEPT !.p1 = v, !.p2 = v])
    ELSE IF f.pc = "prep"
         THEN [f EXCEPT !.p1 = v, !.pc = "prep2"]
         ELSE EnterExec([f EXCEPT !.p2 = v])

\* The same for AsyncNode: for (let i = 0; i < this.maxRetries; i++) with
\* if (i === this.maxRetries - 1); this.curRetry is not touched.
LoopCondAsync(f) == f.i < maxRetries[f.n]
IsFinalAttemptAsync(f) == f.i = maxRetries[f.n] - 1
\* _exec(items) of an async batch node begins.  The expanded classes
\* iterate items as it is (for ... of items, items.map), the compact ones
\* (items || []).
EnterItems(f) ==
    IF f.p2 = UNDEF /\ impl = "expanded"
    THEN [f EXCEPT !.pc = "noitems"]
    ELSE IF f.bps = <<>>
         THEN IF ItemsInParallel(f.n)
              THEN [f EXCEPT !.res = <<>>, !.bi = 0, !.pc = "joinitems"]
              ELSE [f EXCEPT !.res = <<>>, !.bi = 0, !.er = "list",
                             !.pc = "post"]
         ELSE [f EXCEPT !.res = <<>>, !.bi = 0, !.pc = "items"]

EnterExecAsync(f) ==
    IF IsAsyncBatchNode(f.n) THEN EnterItems(f)
    ELSE [f EXCEPT !.i = 0, !.pc = "exec"]

\* _runAsync once prepAsync has resolved to v (compact: prepAsync is awaited
\* twice, as prep is called twice in _run).
AfterPrepAsync(f, v) ==
    IF impl = "expanded"
    THEN EnterExecAsync([f EXCEPT !.p1 = v, !.p2 = v])
    ELSE IF f.pc = "prep"
         THEN [f EXCEPT !.p1 = v, !.pc = "prep2"]
         ELSE EnterExecAsync([f EXCEPT !.p2 = v])

AfterExecThrowAsync(f, e) ==
    IF IsFinalAttemptAsync(f)
    THEN [f EXCEPT !.err = e, !.pc = "fallback"]
    ELSE [f EXCEPT !.i = @ + 1]

\* await sleep(this.wait * 1000) runs when wait > 0.
WaitsAfterThrowAsync(f) == ~IsFinalAttemptAsync(f) /\ wait[f.n] > 0

\* The frame is suspended at an await.
Awaiting(f) == [f EXCEPT !.aw = TRUE]

\* A slip in _exec's return: the value of the call is dropped.
AfterExecReturnDropped(f, v) == [f EXCEPT !.pc = "post"]

\* A slip in BatchNode._exec: the next item goes on with the attempt
\* counter the item before it left.
AfterExecReturnNoReset(f, v) ==
    IF IsBatchNode(f.n)
    THEN IF f.bi < Len(f.bps)
         THEN [f EXCEPT !.res = Append(@, v), !.bi = @ + 1, !.pc = "exec"]
         ELSE [f EXCEPT !.res = Append(@, v), !.er = "list", !.pc = "post"]
    ELSE [f EXCEPT !.er = v, !.pc = "post"]

\* exec returned v: _exec returns it at once.  In a BatchNode it returns
\* to the loop over the items, which pushes v and goes on with the next
\* item's _exec, or returns the results.
AfterExecReturn(f, v) ==
    IF IsBatchNode(f.n)
    THEN IF f.bi < Len(f.bps)
         THEN [f EXCEPT !.res = Append(@, v), !.bi = @ + 1, !.cr = 0,
                        !.pc = "exec"]
         ELSE [f EXCEPT !.res = Append(@, v), !.er = "list", !.pc = "post"]
    ELSE IF IsAsyncBatchNode(f.n)
         THEN [f EXCEPT !.er = v, !.pc = "itemdone"]
         ELSE [f EXCEPT !.er = v, !.pc = "post"]

\* A slip in the catch block: the fallback is handed a stale error.
AfterExecThrowStale(f, e) ==
    IF IsFinalAttempt(f)
    THEN [f EXCEPT !.pc = "fallback"]
    ELSE [f EXCEPT !.cr = @ + 1, !.err = e]

\* exec threw e: the catch block.
AfterExecThrow(f, e) ==
    IF IsFinalAttempt(f)
    THEN [f EXCEPT !.err = e, !.pc = "fallback"]
    ELSE [f EXCEPT !.cr = @ + 1]

\* A slip in the catch block: the wait precedes the final-attempt test.
WaitsAfterThrowFinal(f) == wait[f.n] > 0

\* The busy wait of the catch block runs when wait > 0.
WaitsAfterThrow(f) == ~IsFinalAttempt(f) /\ wait[f.n] > 0

\* prep returned the list l: the first call's list is the prepRes post
\* gets, the last call's the one _exec gets.
WithList(f, l) ==
    IF f.pc = "prep" THEN [f EXCEPT !.pl = l, !.bps = l] ELSE [f EXCEPT !.bps = l]

\* node.run(shared) (BaseNode.run): warn when successors are wired, then _run.
Run(n) ==
    /\ tasks[Main].st = "idle"
    /\ tasks' = [tasks EXCEPT ![Main] =
          [stack |-> <<NewFrame(nextId, n, "sync", TRUE, objs[n].params,
                                objs[n].curRetry, 0, 0, 0)>>,
           st |-> "running", val |-> UNDEF]]
    /\ nextId' = nextId + 1
    /\ log' = IF HasSuccessors(n)
              THEN Append(log, Warning("ignored successors", n, UNDEF, OwnKeys(n)))
              ELSE log
    /\ UNCHANGED <<static, successors, objs, shared>>

\* this.prep(shared) in _run.
Prep(t) ==
    /\ CanStep(t)
    /\ LET f == Top(t) IN
       /\ f.mode = "sync" /\ IsNode(f.n) /\ ~IsAsyncNode(f.n)
       /\ f.pc \in {"prep", "prep2"}
       /\ \E r \in NodePrepResults(f) :
            LET g == AfterPrep(WithList(f, r.list), r.val) IN
            /\ tasks' = SetTop(t, g)
            /\ objs' = ObjsWith(g)
            /\ log' = Append(log, [Ev("prep", f, UNDEF, UNDEF, r.val, TRUE)
                                     EXCEPT !.list = r.list])
    /\ UNCHANGED <<static, successors, shared, nextId>>

\* One pass of Node._exec's loop body: try { return this.exec(prepRes) }
\* catch (e) { fallback on the final attempt, else wait and go round }.
Exec(t) ==
    /\ CanStep(t)
    /\ LET f == Top(t) IN
       /\ f.mode = "sync" /\ IsNode(f.n) /\ ~IsAsyncNode(f.n)
       /\ f.pc = "exec"
       /\ LoopCond(f)
       /\ \/ \E v \in ExecReturns(f) :
               /\ tasks' = SetTop(t, AfterExecReturn(f, v))
               /\ log' = Append(log, Ev("exec", f, ExecArg(f), UNDEF, v, TRUE))
               /\ objs' = ObjsWith(AfterExecReturn(f, v))
          \/ \E e \in ExecThrows(f) :
               /\ tasks' = SetTop(t, AfterExecThrow(f, e))
               /\ objs' = ObjsWith(AfterExecThrow(f, e))
               /\ log' = Append(log, Ev("exec", f, ExecArg(f), UNDEF, e, FALSE))
                          \o (IF WaitsAfterThrow(f)
                              THEN <<Ev("wait", f, UNDEF, UNDEF, UNDEF, TRUE)>>
                              ELSE <<>>)
    /\ UNCHANGED <<static, successors, shared, nextId>>

\* The loop of Node._exec ends without a return: _exec yields undefined.
ExecNone(t) ==
    /\ CanStep(t)
    /\ LET f == Top(t) IN
       /\ f.mode = "sync" /\ IsNode(f.n) /\ ~IsAsyncNode(f.n)
       /\ f.pc = "exec"
       /\ ~LoopCond(f)
       /\ tasks' = SetTop(t, AfterExecReturn(f, UNDEF))
       /\ objs' = ObjsWith(AfterExecReturn(f, UNDEF))
    /\ UNCHANGED <<static, successors, shared, log, nextId>>

\* return this.execFallback(prepRes, e) on the final attempt.
ExecFallback(t) ==
    /\ CanStep(t)
    /\ LET f == Top(t) IN
       /\ f.mode = "sync" /\ IsNode(f.n) /\ ~IsAsyncNode(f.n)
       /\ f.pc = "fallback"
       /\ \E o \in FallbackOutcomes(f) :
            /\ log' = Append(log, Ev("execFallback", f, ExecArg(f), f.err,
                                     o.val, o.ok))
            /\ tasks' = IF o.ok THEN SetTop(t, AfterExecReturn(f, o.val))
                               ELSE ThrowFrom(t, o.val)
            /\ objs' = IF o.ok THEN ObjsWith(AfterExecReturn(f, o.val)) ELSE objs
    /\ UNCHANGED <<static, successors, shared, nextId>>

\* return this.post(shared, p, e): the action goes back to the caller.
Post(t) ==
    /\ CanStep(t)
    /\ LET f == Top(t) IN
       /\ f.mode = "sync" /\ IsNode(f.n) /\ ~IsAsyncNode(f.n)
       /\ f.pc = "post"
       /\ \E a \in PostActions(f) :
            /\ log' = Append(log, [Ev("post", f, f.p1, f.er, a, TRUE)
                                     EXCEPT !.list = f.pl, !.res = f.res])
            /\ shared' = PostStore(f)
            /\ tasks' = ReturnFrom(t, a)
    /\ UNCHANGED <<static, successors, objs, nextId>>

(* ------------------- AsyncNode: _runAsync, _exec ---------------------- *)

\* As ReturnFrom, for a frame whose caller awaits it: the caller resumes
\* at a later turn of the event loop.
ReturnFromAsync(t, a) ==
    LET rest == Tail(Stack(t)) IN
    IF rest = <<>>
    THEN [tasks EXCEPT ![t] = [stack |-> <<>>, st |-> "returned", val |-> a]]
    ELSE [tasks EXCEPT ![t].stack =
             <<[Head(rest) EXCEPT !.last = a, !.pc = "next", !.aw = TRUE]>>
             \o Tail(rest)]

\* node.runAsync(shared) (AsyncNode.runAsync; for a flow, _runAsync).
RunAsync(n) ==
    /\ tasks[Main].st = "idle"
    /\ IsAsyncClass(n)
    /\ tasks' = [tasks EXCEPT ![Main] =
          [stack |-> <<NewFrame(nextId, n, "async", TRUE, objs[n].params,
                                objs[n].curRetry, 0, 0, 0)>>,
           st |-> "running", val |-> UNDEF]]
    /\ nextId' = nextId + 1
    /\ log' = IF HasSuccessors(n) /\ IsAsyncNode(n)
              THEN Append(log, Warning("ignored successors", n, UNDEF, OwnKeys(n)))
              ELSE log
    /\ UNCHANGED <<static, successors, objs, shared>>

\* A slip in AsyncNode._run: prep is called before the error is thrown.
UseRunAsyncAfterPrep(t) ==
    /\ CanStep(t)
    /\ LET f == Top(t) IN
       /\ f.mode = "sync" /\ IsAsyncNode(f.n)
       /\ log' = Append(log, Ev("prep", f, UNDEF, UNDEF, UNDEF, TRUE))
       /\ tasks' = ThrowFrom(t, "Use runAsync.")
    /\ UNCHANGED <<static, successors, objs, shared, nextId>>

\* AsyncNode._run: throw new Error("Use runAsync.").
UseRunAsync(t) ==
    /\ CanStep(t)
    /\ LET f == Top(t) IN
       /\ f.mode = "sync" /\ IsAsyncNode(f.n)
       /\ tasks' = ThrowFrom(t, "Use runAsync.")
    /\ UNCHANGED <<static, successors, objs, shared, log, nextId>>

\* A suspended frame resumes after its await.
Resume(t) ==
    /\ tasks[t].st = "running"
    /\ Top(t).aw
    /\ \A u \in DOMAIN tasks : u # t => Yielded(u)
    /\ tasks' = SetTop(t, [Top(t) EXCEPT !.aw = FALSE])
    /\ UNCHANGED <<static, successors, objs, shared, log, nextId>>

\* await this.prepAsync(shared) in _runAsync.
PrepAsync(t) ==
    /\ CanStep(t)
    /\ LET f == Top(t) IN
       /\ f.mode = "async" /\ IsNode(f.n)
       /\ f.pc \in {"prep", "prep2"}
       /\ \E r \in NodePrepResults(f) :
            /\ tasks' = SetTop(t, Awaiting(AfterPrepAsync(WithList(f, r.list),
                                                          r.val)))
            /\ log' = Append(log, [Ev("prepAsync", f, UNDEF, UNDEF, r.val, TRUE)
                                     EXCEPT !.list = r.list])
    /\ UNCHANGED <<static, successors, objs, shared, nextId>>

\* One pass of AsyncNode._exec's loop body.
ExecAsync(t) ==
    /\ CanStep(t)
    /\ LET f == Top(t) IN
       /\ f.mode = "async" /\ IsNode(f.n)
       /\ f.pc = "exec"
       /\ LoopCondAsync(f)
       /\ \/ \E v \in ExecReturns(f) :
               /\ tasks' = SetTop(t, Awaiting(AfterExecReturn(f, v)))
               /\ log' = Append(log, Ev("execAsync", f, ExecArg(f), UNDEF, v,
                                        TRUE))
          \/ \E e \in ExecThrows(f) :
               /\ tasks' = SetTop(t, Awaiting(AfterExecThrowAsync(f, e)))
               /\ log' = Append(log, Ev("execAsync", f, ExecArg(f), UNDEF, e,
                                        FALSE))
                          \o (IF WaitsAfterThrowAsync(f)
                              THEN <<Ev("wait", f, UNDEF, UNDEF, UNDEF, TRUE)>>
                              ELSE <<>>)
    /\ UNCHANGED <<static, successors, objs, shared, nextId>>

\* The loop of AsyncNode._exec ends without a return.
ExecNoneAsync(t) ==
    /\ CanStep(t)
    /\ LET f == Top(t) IN
       /\ f.mode = "async" /\ IsNode(f.n)
       /\ f.pc = "exec"
       /\ ~LoopCondAsync(f)
       /\ tasks' = SetTop(t, Awaiting(AfterExecReturn(f, UNDEF)))
    /\ UNCHANGED <<static, successors, objs, shared, log, nextId>>

\* A slip in the handling of an item that falls back: the items still in
\* flight beside it are abandoned.
ExecFallbackAsyncCancels(t) ==
    /\ CanStep(t)
    /\ LET f == Top(t) IN
       /\ f.mode = "async" /\ IsNode(f.n)
       /\ f.pc = "fallback"
       /\ \E o \in FallbackOutcomes(f) :
            /\ log' = Append(log, Ev("execFallbackAsync", f, ExecArg(f), f.err,
                                     o.val, o.ok))
            /\ tasks' = [u \in DOMAIN tasks |->
                  IF u = t
                  THEN IF o.ok
                       THEN [tasks[u] EXCEPT !.stack =
                                <<Awaiting(AfterExecReturn(f, o.val))>>]
                       ELSE [stack |-> <<>>, st |-> "threw", val |-> o.val]
                  ELSE IF u # Main /\ tasks[u].st = "running"
                       THEN [stack |-> <<>>, st |-> "threw", val |-> "cancelled"]
                       ELSE tasks[u]]
    /\ UNCHANGED <<static, successors, objs, shared, nextId>>

\* return await this.execFallbackAsync(prepRes, e).
ExecFallbackAsync(t) ==
    /\ CanStep(t)
    /\ LET f == Top(t) IN
       /\ f.mode = "async" /\ IsNode(f.n)
       /\ f.pc = "fallback"
       /\ \E o \in FallbackOutcomes(f) :
            /\ log' = Append(log, Ev("execFallbackAsync", f, ExecArg(f), f.err,
                                     o.val, o.ok))
            /\ tasks' = IF o.ok
                        THEN SetTop(t, Awaiting(AfterExecReturn(f, o.val)))
                        ELSE ThrowFrom(t, o.val)
    /\ UNCHANGED <<static, successors, objs, shared, nextId>>

\* A slip in _runAsync: a write computed from a value that is no longer
\* the store's is refused.
PostAsyncDetects(t) ==
    /\ CanStep(t)
    /\ LET f == Top(t)
           stale == Beh(f) = "incr" /\ shared.count + 1 # f.er
       IN
       /\ f.mode = "async" /\ IsNode(f.n)
       /\ f.pc = "post"
       /\ \E a \in PostActions(f) :
            /\ log' = Append(log, [Ev("postAsync", f, f.p1, f.er, a, ~stale)
                                     EXCEPT !.list = f.pl, !.res = f.res])
            /\ shared' = IF stale THEN shared ELSE PostStore(f)
            /\ tasks' = IF stale THEN ThrowFrom(t, "conflict")
                        ELSE ReturnFromAsync(t, a)
    /\ UNCHANGED <<static, successors, objs, nextId>>

\* return await this.postAsync(shared, p, e).
PostAsync(t) ==
    /\ CanStep(t)
    /\ LET f == Top(t) IN
       /\ f.mode = "async" /\ IsNode(f.n)
       /\ f.pc = "post"
       /\ \E a \in PostActions(f) :
            /\ log' = Append(log, [Ev("postAsync", f, f.p1, f.er, a, TRUE)
                                     EXCEPT !.list = f.pl, !.res = f.res])
            /\ shared' = PostStore(f)
            /\ tasks' = ReturnFromAsync(t, a)
    /\ UNCHANGED <<static, successors, objs, nextId>>

(* ------- AsyncBatchNode, AsyncParallelBatchNode: _exec(items) --------- *)

\* The task that runs super._exec for item k of the node run in frame f.
ItemTask(f, k) == f.base + k
ItemTasks(f) == {ItemTask(f, k) : k \in 1..f.bi}

\* for (const item of items) / items.map(...) on a prepRes that is
\* undefined: a TypeError, which nothing catches.
ItemsNotIterable(t) ==
    /\ CanStep(t)
    /\ LET f == Top(t) IN
       /\ f.mode = "async" /\ IsAsyncBatchNode(f.n)
       /\ f.pc = "noitems"
       /\ tasks' = ThrowFrom(t, "TypeError")
    /\ UNCHANGED <<static, successors, objs, shared, log, nextId>>

\* super._exec(item) is called for the next item: the retry loop of
\* AsyncNode._exec starts for it and runs up to its first await.  Inside
\* Promise.all(items.map(...)) the next call follows at once; in the loop
\* of the expanded AsyncBatchNode the call is awaited first.
ForkItem(t) ==
    /\ CanStep(t)
    /\ LET f == Top(t)
           k == f.bi + 1
       IN
       /\ f.mode = "async" /\ IsAsyncBatchNode(f.n)
       /\ f.pc = "items"
       /\ k <= Len(f.bps)
       /\ tasks' = Append(
             SetTop(t, [f EXCEPT
                 !.bi = k,
                 !.base = IF f.bi = 0 THEN Len(tasks) ELSE @,
                 !.pc = IF ItemsInParallel(f.n)
                        THEN IF k = Len(f.bps) THEN "joinitems" ELSE "items"
                        ELSE "awaititem"]),
             [stack |-> <<[f EXCEPT !.bi = k, !.i = 0, !.pc = "exec"]>>,
              st |-> "running", val |-> UNDEF])
    /\ UNCHANGED <<static, successors, objs, shared, log, nextId>>

\* One item's _exec returns what its execAsync or execFallbackAsync
\* resolved to.
ItemDone(t) ==
    /\ CanStep(t)
    /\ LET f == Top(t) IN
       /\ f.mode = "async" /\ IsAsyncBatchNode(f.n)
       /\ f.pc = "itemdone"
       /\ tasks' = ReturnFrom(t, f.er)
    /\ UNCHANGED <<static, successors, objs, shared, log, nextId>>

\* results.push(await super._exec(item)) in the expanded AsyncBatchNode:
\* the item's _exec has returned; the loop goes on, or _exec returns.
AwaitItem(t) ==
    /\ tasks[t].st = "running"
    /\ LET f == Top(t) IN
       /\ f.pc = "awaititem"
       /\ \A u \in DOMAIN tasks : u # t => Yielded(u)
       /\ tasks[ItemTask(f, f.bi)].st = "returned"
       /\ tasks' = SetTop(t,
             IF f.bi < Len(f.bps)
             THEN [f EXCEPT !.res = Append(@, tasks[ItemTask(f, f.bi)].val),
                            !.pc = "items"]
             ELSE [f EXCEPT !.res = Append(@, tasks[ItemTask(f, f.bi)].val),
                            !.er = "list", !.pc = "post"])
    /\ UNCHANGED <<static, successors, objs, shared, log, nextId>>

\* The awaited _exec threw: the error leaves the loop and _runAsync.
AwaitItemReject(t) ==
    /\ tasks[t].st = "running"
    /\ LET f == Top(t) IN
       /\ f.pc = "awaititem"
       /\ \A u \in DOMAIN tasks : u # t => Yielded(u)
       /\ tasks[ItemTask(f, f.bi)].st = "threw"
       /\ tasks' = ThrowFrom(t, tasks[ItemTask(f, f.bi)].val)
    /\ UNCHANGED <<static, successors, objs, shared, log, nextId>>

\* A slip in the gathering of the results: they come in reverse.
ItemResultsReversed(f) ==
    [k \in 1..Len(f.bps) |-> tasks[ItemTask(f, Len(f.bps) + 1 - k)].val]

\* What Promise.all resolves to: the value of each promise at the index
\* of its item.
ItemResults(f) == [k \in 1..Len(f.bps) |-> tasks[ItemTask(f, k)].val]

\* await Promise.all(...) resolves: every item's _exec has returned.
JoinItems(t) ==
    /\ tasks[t].st = "running"
    /\ LET f == Top(t) IN
       /\ f.pc = "joinitems"
       /\ \A u \in ItemTasks(f) : tasks[u].st = "returned"
       /\ tasks' = SetTop(t, [f EXCEPT !.res = ItemResults(f), !.er = "list",
                                       !.pc = "post"])
    /\ UNCHANGED <<static, successors, objs, shared, log, nextId>>

\* await Promise.all(...) rejects with the error of an item's _exec that
\* threw, whatever the other items are doing; they go on.
JoinItemsReject(t) ==
    /\ tasks[t].st = "running"
    /\ LET f == Top(t) IN
       /\ f.pc = "joinitems"
       /\ \A u \in DOMAIN tasks : u # t => Yielded(u)
       /\ \E u \in ItemTasks(f) :
             /\ tasks[u].st = "threw"
             /\ tasks' = ThrowFrom(t, tasks[u].val)
    /\ UNCHANGED <<static, successors, objs, shared, log, nextId>>

(* ------------------------ wiring: BaseNode.next ----------------------- *)

\* action in this.successors: own keys and the names a plain object
\* inherits from Object.prototype.
InSuccessors(n, a) == a \in OwnKeys(n) \cup InheritedKeys

\* n.next(m, a), which rshift / connectTo, sub / onAction, chain and branch
\* all come down to.
next(n, m, a) ==
    /\ tasks[Main].st = "idle"
    /\ wires < MaxWires
    /\ wires' = wires + 1
    /\ log' = IF InSuccessors(n, a)
              THEN Append(log, Warning("overwriting", n, a, OwnKeys(n)))
              ELSE log
    /\ successors' = [successors EXCEPT ![n][a] = m]
    /\ UNCHANGED <<impl, cls, maxRetries, wait, user, startNode, objs, shared,
                   tasks, nextId>>

\* n.setParams(p) before the run.
setParams(n, p) ==
    /\ tasks[Main].st = "idle"
    /\ objs' = [objs EXCEPT ![n].params = p]
    /\ UNCHANGED <<static, successors, shared, tasks, log, nextId>>

(* ----------------- Flow: _run, _orch, getNextNode, post --------------- *)

\* What successors[key] yields that is not a node: a member of
\* Object.prototype, found because successors is a plain object.
NotANode == "inherited"

\* A slip in the lookup key: action ?? "default", which keeps "".
KeyNullish(a) == IF a \in {UNDEF, NULL} THEN "default" ELSE a

\* action || "default"
Key(a) == IF a \in {UNDEF, NULL, ""} THEN "default" ELSE a

\* A slip in getNextNode: the action is ignored.
LookupDefaultOnly(n, a) ==
    IF "default" \in OwnKeys(n) THEN successors[n]["default"] ELSE NoNode

\* curr.successors[action || "default"]
Lookup(n, a) ==
    IF Key(a) \in OwnKeys(n) THEN successors[n][Key(a)]
    ELSE IF Key(a) \in InheritedKeys THEN NotANode
    ELSE NoNode

\* if (!nxt && Object.keys(curr.successors).length > 0) console.warn(...)
WarnsFlowEnds(n, a) == Lookup(n, a) = NoNode /\ HasSuccessors(n)

\* { ...a, ...b }
Merge(a, b) == [k \in ParamKeys |-> IF b[k] # ABSENT THEN b[k] ELSE a[k]]

\* Which _run / _runAsync the frame executes.  Called through _run, an
\* AsyncFlow of any kind runs Flow._run, the only _run it inherits.
FlowKind(f) ==
    IF f.mode = "async" THEN cls[f.n]
    ELSE IF cls[f.n] = "BatchFlow" THEN "BatchFlow" ELSE "Flow"

IsBatchRun(f) == FlowKind(f) \in {"BatchFlow", "AsyncBatchFlow"}
\* A slip in AsyncBatchFlow._runAsync: Promise.all over the parameter-sets
\* in the place of the loop that awaits each traversal.
IsParallelRunOfAnyBatch(f) ==
    FlowKind(f) \in {"AsyncBatchFlow", "AsyncParallelBatchFlow"}

IsParallelRun(f) == FlowKind(f) = "AsyncParallelBatchFlow"

\* A slip in _orch: p is built on what the traversal before left.
StartOrchLeftover(f, params) ==
    [f EXCEPT !.curr = startNode[f.n], !.op = Merge(Merge(f.par, f.op), params),
              !.last = NULL, !.nsteps = 0, !.pc = "loop"]

\* _orch(shared, params) begins: curr = deepClone(this.startNode),
\* p = { ...this.params, ...params }, lastAction = null.
StartOrch(f, params) ==
    [f EXCEPT !.curr = startNode[f.n], !.op = Merge(f.par, params),
              !.last = NULL, !.nsteps = 0, !.pc = "loop"]

\* A slip in BatchFlow._run: every traversal is given the first set.
BatchNextFirstSet(f) ==
    IF f.bi < Len(f.bps)
    THEN StartOrch([f EXCEPT !.bi = @ + 1], Merge(f.par, f.bps[1]))
    ELSE [f EXCEPT !.er = NULL, !.pc = "post"]

\* BatchFlow._run: for (const bp of pr) this._orch(shared, {...this.params,
\* ...bp}); then return this.post(shared, pr, null).
BatchNext(f) ==
    IF f.bi < Len(f.bps)
    THEN StartOrch([f EXCEPT !.bi = @ + 1], Merge(f.par, f.bps[f.bi + 1]))
    ELSE [f EXCEPT !.er = NULL, !.pc = "post"]

\* _run once prep has returned: Flow._run calls _orch(shared), BatchFlow._run
\* walks pr = this.prep(shared) || [], AsyncParallelBatchFlow._runAsync maps
\* pr to _orchAsync calls.
AfterFlowPrep(f, r) ==
    IF IsParallelRun(f)
    THEN [f EXCEPT !.p1 = "list", !.bps = r.list, !.bi = 0,
                   !.pc = IF r.list = <<>> THEN "join" ELSE "fork"]
    ELSE IF IsBatchRun(f)
    THEN BatchNext([f EXCEPT !.p1 = "list", !.bps = r.list, !.bi = 0])
    ELSE StartOrch([f EXCEPT !.p1 = r.val, !.bi = 1], NoParams)

\* A slip in Flow._run: post is given null whatever _orch returned.
AfterOrchNull(f) ==
    IF IsBatchRun(f) THEN BatchNext(f)
    ELSE [f EXCEPT !.er = NULL, !.pc = "post"]

\* _orch returns lastAction: to Flow._run, which passes it to post, or to
\* BatchFlow._run's loop, which drops it.
AfterOrch(f) ==
    IF IsBatchRun(f) THEN BatchNext(f)
    ELSE [f EXCEPT !.er = f.last, !.pc = "post"]

\* The lists of at most MaxBatch parameter-sets.
RECURSIVE ParamSetLists(_)
ParamSetLists(k) ==
    IF k = 0 THEN {<<>>}
    ELSE ParamSetLists(k - 1) \cup
         {Append(l, b) : l \in {x \in ParamSetLists(k - 1) : Len(x) = k - 1},
                         b \in ParamSets}

\* The first k of the parameter-sets {filename: "x", type: "inner"},
\* {filename: "y"}, {filename: "x", type: "inner"}, ...
FirstSets(k) ==
    [j \in 1..k |-> IF j % 2 = 1 THEN [filename |-> "x", type |-> "inner"]
                                  ELSE [filename |-> "y", type |-> ABSENT]]

\* A flow's prep: a batch flow's returns its parameter-sets, or nothing.
FlowPrepResults(f) ==
    IF IsBatchRun(f) /\ Beh(f) = "files"
    THEN {[val |-> "list", list |-> FilesOf(f.par)]}
    ELSE IF (IsBatchRun(f) \/ IsParallelRun(f)) /\ Beh(f) = "sets"
    THEN {[val |-> "list", list |-> FirstSets(k)] : k \in 0..MaxBatch}
         \cup {[val |-> UNDEF, list |-> <<>>]}
    ELSE IF IsBatchRun(f) /\ Beh(f) # "default"
    THEN {[val |-> "list", list |-> l] : l \in ParamSetLists(MaxBatch)}
    ELSE {[val |-> v, list |-> <<>>] : v \in PrepResults(f)}

\* const p = this.prep(shared) in Flow._run / BatchFlow._run, up to the
\* first line of _orch.
FlowPrep(t) ==
    /\ CanStep(t)
    /\ LET f == Top(t) IN
       /\ f.mode = "sync" /\ IsFlow(f.n)
       /\ f.pc = "prep"
       /\ \E r \in FlowPrepResults(f) :
            /\ tasks' = SetTop(t, AfterFlowPrep(f, r))
            /\ log' = Append(log, [Ev("prep", f, UNDEF, UNDEF, r.val, TRUE)
                                     EXCEPT !.list = r.list])
    /\ UNCHANGED <<static, successors, objs, shared, nextId>>

\* A slip in _orch: what the node was given with setParams stays under p.
CurrParamsKept(f) == Merge(f.op, objs[f.curr].params)

\* curr.setParams(p) on the clone of the node: this.params = p, whatever the
\* node was constructed or set up with.
CurrParams(f) == f.op

\* A slip in _orchAsync: every node is awaited through _runAsync.
ChildModeOfFlow(f) == f.mode

\* _orch calls curr._run(shared); _orchAsync calls
\* curr instanceof AsyncNode ? await curr._runAsync(shared) : curr._run(shared).
ChildMode(f) ==
    IF f.mode = "async" /\ IsAsyncNode(f.curr) THEN "async" ELSE "sync"

\* A slip in _orch: the node itself is run, not a clone of it.
OrchStepOnOriginal(t) ==
    /\ CanStep(t)
    /\ LET f == Top(t) IN
       /\ IsFlow(f.n)
       /\ f.pc = "loop"
       /\ f.curr \notin {NoNode, NotANode}
       /\ LET mode == ChildMode(f)
              child == NewFrame(nextId, f.curr, mode, TRUE, CurrParams(f),
                                objs[f.curr].curRetry, f.id, f.bi, f.nsteps + 1)
          IN tasks' = [tasks EXCEPT ![t].stack =
                 <<child, [f EXCEPT !.pc = "child", !.nsteps = @ + 1]>>
                 \o Tail(@)]
       /\ objs' = [objs EXCEPT ![f.curr].params = CurrParams(f)]
    /\ nextId' = nextId + 1
    /\ UNCHANGED <<static, successors, shared, log>>

\* The body of _orch's while loop up to the call: curr.setParams(p);
\* curr._run(shared), on the clone of the node.  _orchAsync calls
\* curr._runAsync(shared) instead when curr instanceof AsyncNode.
OrchStep(t) ==
    /\ CanStep(t)
    /\ LET f == Top(t) IN
       /\ IsFlow(f.n)
       /\ f.pc = "loop"
       /\ f.curr \notin {NoNode, NotANode}
       /\ LET mode == ChildMode(f)
              child == NewFrame(nextId, f.curr, mode, FALSE, CurrParams(f),
                                objs[f.curr].curRetry, f.id, f.bi, f.nsteps + 1)
          IN tasks' = [tasks EXCEPT ![t].stack =
                 <<child, [f EXCEPT !.pc = "child", !.nsteps = @ + 1]>>
                 \o Tail(@)]
    /\ nextId' = nextId + 1
    /\ UNCHANGED <<static, successors, objs, shared, log>>

\* curr.setParams(p) when successors[key] yielded a member of
\* Object.prototype: its clone has no setParams, a TypeError.
OrchTypeError(t) ==
    /\ CanStep(t)
    /\ LET f == Top(t) IN
       /\ IsFlow(f.n)
       /\ f.pc = "loop"
       /\ f.curr = NotANode
       /\ tasks' = ThrowFrom(t, "TypeError")
    /\ UNCHANGED <<static, successors, objs, shared, log, nextId>>

\* A slip in _orch: the engine keeps the last action in the store.
GetNextNodeStores(t) ==
    /\ CanStep(t)
    /\ LET f == Top(t) IN
       /\ IsFlow(f.n)
       /\ f.pc = "next"
       /\ tasks' = SetTop(t, [f EXCEPT !.curr = Lookup(f.curr, f.last),
                                       !.pc = "loop"])
       /\ log' = IF WarnsFlowEnds(f.curr, f.last)
                 THEN Append(log, Warning("flow ends", f.curr, f.last,
                                          OwnKeys(f.curr)))
                 ELSE log
       /\ shared' = [shared EXCEPT !.data = f.last]
    /\ UNCHANGED <<static, successors, objs, nextId>>

\* curr = deepClone(this.getNextNode(curr, lastAction)) after the call.
GetNextNode(t) ==
    /\ CanStep(t)
    /\ LET f == Top(t) IN
       /\ IsFlow(f.n)
       /\ f.pc = "next"
       /\ tasks' = SetTop(t, [f EXCEPT !.curr = Lookup(f.curr, f.last),
                                       !.pc = "loop"])
       /\ log' = IF WarnsFlowEnds(f.curr, f.last)
                 THEN Append(log, Warning("flow ends", f.curr, f.last,
                                          OwnKeys(f.curr)))
                 ELSE log
    /\ UNCHANGED <<static, successors, objs, shared, nextId>>

\* while (curr) fails: _orch returns lastAction (one of the promises of an
\* AsyncParallelBatchFlow resolves).
OrchEnd(t) ==
    /\ CanStep(t)
    /\ LET f == Top(t) IN
       /\ IsFlow(f.n)
       /\ f.pc = "loop"
       /\ f.curr = NoNode
       /\ tasks' = IF IsParallelRun(f) THEN ReturnFrom(t, f.last)
                   ELSE SetTop(t, IF f.mode = "async" THEN Awaiting(AfterOrch(f))
                                                      ELSE AfterOrch(f))
    /\ UNCHANGED <<static, successors, objs, shared, log, nextId>>

\* A slip in _runAsync: one params object is filled for every traversal, so
\* that all of them run with the last parameter-set.
ForkSharedParams(t) ==
    /\ CanStep(t)
    /\ LET f == Top(t) IN
       /\ IsFlow(f.n) /\ IsParallelRun(f)
       /\ f.pc = "fork"
       /\ tasks' = Append(
             SetTop(t, [f EXCEPT !.bi = @ + 1,
                                 !.pc = IF f.bi + 1 = Len(f.bps) THEN "join"
                                        ELSE "fork"]),
             [stack |-> <<StartOrch([f EXCEPT !.bi = @ + 1],
                                    Merge(f.par, f.bps[Len(f.bps)]))>>,
              st |-> "running", val |-> UNDEF])
    /\ UNCHANGED <<static, successors, objs, shared, log, nextId>>

\* pr.map((bp) => this._orchAsync(shared, { ...this.params, ...bp })) in
\* AsyncParallelBatchFlow._runAsync: the next _orchAsync call begins, once
\* the call before it has reached its first await or returned.
Fork(t) ==
    /\ CanStep(t)
    /\ LET f == Top(t) IN
       /\ IsFlow(f.n) /\ IsParallelRun(f)
       /\ f.pc = "fork"
       /\ tasks' = Append(
             SetTop(t, [f EXCEPT !.bi = @ + 1,
                                 !.pc = IF f.bi + 1 = Len(f.bps) THEN "join"
                                        ELSE "fork"]),
             [stack |-> <<StartOrch([f EXCEPT !.bi = @ + 1],
                                    Merge(f.par, f.bps[f.bi + 1]))>>,
              st |-> "running", val |-> UNDEF])
    /\ UNCHANGED <<static, successors, objs, shared, log, nextId>>

\* A slip in _runAsync: Promise.race in the place of Promise.all.
JoinFirst(t) ==
    /\ tasks[t].st = "running"
    /\ LET f == Top(t) IN
       /\ f.pc = "join"
       /\ \A u \in DOMAIN tasks : u # t => Yielded(u)
       /\ \/ f.bps = <<>>
          \/ \E u \in DOMAIN tasks : u # t /\ tasks[u].st = "returned"
       /\ tasks' = SetTop(t, [f EXCEPT !.er = NULL, !.pc = "post", !.aw = FALSE])
    /\ UNCHANGED <<static, successors, objs, shared, log, nextId>>

\* await Promise.all(...) resolves: every _orchAsync call has returned.
Join(t) ==
    /\ tasks[t].st = "running"
    /\ LET f == Top(t) IN
       /\ f.pc = "join"
       /\ \A u \in DOMAIN tasks : u # t => tasks[u].st = "returned"
       /\ tasks' = SetTop(t, [f EXCEPT !.er = NULL, !.pc = "post", !.aw = FALSE])
    /\ UNCHANGED <<static, successors, objs, shared, log, nextId>>

\* await Promise.all(...) rejects with the error of the first _orchAsync
\* call that threw, whatever the other calls are doing; they go on.
JoinReject(t) ==
    /\ tasks[t].st = "running"
    /\ Top(t).pc = "join"
    /\ \A u \in DOMAIN tasks : u # t => Yielded(u)
    /\ \E u \in DOMAIN tasks :
          /\ u # t /\ tasks[u].st = "threw"
          /\ tasks' = ThrowFrom(t, tasks[u].val)
    /\ UNCHANGED <<static, successors, objs, shared, log, nextId>>

\* A slip in Flow._run: post is called and o is returned in its place.
FlowPostDropped(t) ==
    /\ CanStep(t)
    /\ LET f == Top(t) IN
       /\ f.mode = "sync" /\ IsFlow(f.n)
       /\ f.pc = "post"
       /\ \E a \in PostActions(f) :
            /\ log' = Append(log, [Ev("post", f, f.p1, f.er, a, TRUE)
                                     EXCEPT !.list = f.bps])
            /\ shared' = PostStore(f)
            /\ tasks' = ReturnFrom(t, f.er)
    /\ UNCHANGED <<static, successors, objs, nextId>>

\* return this.post(shared, p, o) in Flow._run / BatchFlow._run.
FlowPost(t) ==
    /\ CanStep(t)
    /\ LET f == Top(t) IN
       /\ f.mode = "sync" /\ IsFlow(f.n)
       /\ f.pc = "post"
       /\ \E a \in PostActions(f) :
            /\ log' = Append(log, [Ev("post", f, f.p1, f.er, a, TRUE)
                                     EXCEPT !.list = f.bps])
            /\ shared' = PostStore(f)
            /\ tasks' = ReturnFrom(t, a)
    /\ UNCHANGED <<static, successors, objs, nextId>>

\* const p = await this.prepAsync(shared) in AsyncFlow._runAsync /
\* AsyncBatchFlow._runAsync.
FlowPrepAsync(t) ==
    /\ CanStep(t)
    /\ LET f == Top(t) IN
       /\ f.mode = "async" /\ IsFlow(f.n)
       /\ f.pc = "prep"
       /\ \E r \in FlowPrepResults(f) :
            /\ tasks' = SetTop(t, Awaiting(AfterFlowPrep(f, r)))
            /\ log' = Append(log, [Ev("prepAsync", f, UNDEF, UNDEF, r.val, TRUE)
                                     EXCEPT !.list = r.list])
    /\ UNCHANGED <<static, successors, objs, shared, nextId>>

\* return await this.postAsync(shared, p, o).
FlowPostAsync(t) ==
    /\ CanStep(t)
    /\ LET f == Top(t) IN
       /\ f.mode = "async" /\ IsFlow(f.n)
       /\ f.pc = "post"
       /\ \E a \in PostActions(f) :
            /\ log' = Append(log, [Ev("postAsync", f, f.p1, f.er, a, TRUE)
                                     EXCEPT !.list = f.bps])
            /\ shared' = PostStore(f)
            /\ tasks' = ReturnFromAsync(t, a)
    /\ UNCHANGED <<static, successors, objs, nextId>>

(* ----------------------- a node run on its own ------------------------ *)

IdleTask == [stack |-> <<>>, st |-> "idle", val |-> UNDEF]
NoSuccessors == [o \in Objs |-> [l \in AllLabels |-> NoNode]]
FreshObjs == [o \in Objs |-> [params |-> NoParams, curRetry |-> 0]]

\* new Node(maxRetries, wait) with any hooks overridden, nothing wired.
InitNode ==
    /\ impl \in {"compact", "expanded"}
    /\ \E c \in {"Node", "AsyncNode"} :
         cls = [o \in Objs |-> IF o = "A" THEN c
                               ELSE IF o \in NodeIds THEN "Node" ELSE "Flow"]
    /\ \E k \in -1..MaxRetries :
         maxRetries = [o \in Objs |-> IF o = "A" THEN k ELSE 1]
    /\ \E w \in {0, 1} : wait = [o \in Objs |-> IF o = "A" THEN w ELSE 0]
    /\ \E fb \in BOOLEAN :
         user = [o \in Objs |-> IF o = "A" THEN [fb |-> fb, beh |-> "free"]
                                ELSE [fb |-> FALSE, beh |-> "default"]]
    /\ startNode = [o \in Objs |-> NoNode]
    /\ successors = NoSuccessors
    /\ objs = FreshObjs
    /\ shared = EmptyStore
    /\ tasks = <<IdleTask>>
    /\ log = <<>>
    /\ nextId = 1
    /\ wires = 0

NextNode ==
    \/ Run("A")
    \/ RunAsync("A")
    \/ \E t \in DOMAIN tasks : UseRunAsync(t)
    \/ \E t \in DOMAIN tasks : Resume(t)
    \/ \E t \in DOMAIN tasks : PrepAsync(t)
    \/ \E t \in DOMAIN tasks : ExecAsync(t)
    \/ \E t \in DOMAIN tasks : ExecNoneAsync(t)
    \/ \E t \in DOMAIN tasks : ExecFallbackAsync(t)
    \/ \E t \in DOMAIN tasks : PostAsync(t)
    \/ \E t \in DOMAIN tasks : Prep(t)
    \/ \E t \in DOMAIN tasks : Exec(t)
    \/ \E t \in DOMAIN tasks : ExecNone(t)
    \/ \E t \in DOMAIN tasks : ExecFallback(t)
    \/ \E t \in DOMAIN tasks : Post(t)

SpecNode == InitNode /\ [][NextNode]_vars

(* ------------------------- a flow over a graph ------------------------ *)

\* F = new Flow(A) and G = new Flow(C); A, B and C are Nodes whose prep
\* reads the store, whose exec may throw and whose post writes the store
\* and returns any action.  Nothing is wired yet.
Init ==
    /\ impl \in {"compact", "expanded"}
    /\ cls = [o \in Objs |-> IF o \in NodeIds THEN "Node" ELSE "Flow"]
    /\ maxRetries = [o \in Objs |-> 1]
    /\ wait = [o \in Objs |-> 0]
    /\ user = [o \in Objs |-> IF o \in NodeIds
                               THEN [fb |-> FALSE, beh |-> "reads"]
                               ELSE [fb |-> FALSE, beh |-> "default"]]
    /\ startNode = [o \in Objs |-> CASE o = "F" -> "A" [] o = "G" -> "C"
                                     [] OTHER -> NoNode]
    /\ successors = NoSuccessors
    /\ objs = FreshObjs
    /\ shared = EmptyStore
    /\ tasks = <<IdleTask>>
    /\ log = <<>>
    /\ nextId = 1
    /\ wires = 0

\* The graph may hold cycles: a traversal is followed for MaxSteps steps.
StepsLeft(t) == tasks[t].st = "running" /\ Top(t).nsteps < MaxSteps

Next ==
    \/ \E n \in {"A", "B", "G"}, m \in {"B", "G"}, a \in Labels :
         next(n, m, a)
    \/ Run("F")
    \/ \E t \in DOMAIN tasks : FlowPrep(t)
    \/ \E t \in DOMAIN tasks : StepsLeft(t) /\ OrchStep(t)
    \/ \E t \in DOMAIN tasks : OrchTypeError(t)
    \/ \E t \in DOMAIN tasks : GetNextNode(t)
    \/ \E t \in DOMAIN tasks : OrchEnd(t)
    \/ \E t \in DOMAIN tasks : FlowPost(t)
    \/ \E t \in DOMAIN tasks : Prep(t)
    \/ \E t \in DOMAIN tasks : Exec(t)
    \/ \E t \in DOMAIN tasks : ExecFallback(t)
    \/ \E t \in DOMAIN tasks : Post(t)

Spec == Init /\ [][Next]_vars

(* --------------------- a chain run by each flow class ------------------ *)

\* The chain A >> B >> C started by F, where F is a Flow, a BatchFlow, an
\* AsyncFlow or an AsyncBatchFlow.  Either A is LoadData, B Summarize and C
\* a plain Node, or every node reads the store in prep and writes it in
\* post.  An async
\* flow's nodes are Nodes or AsyncNodes; a batch flow's prep lists
\* parameter-sets.
InitSeq ==
    /\ impl \in {"compact", "expanded"}
    /\ \E c \in {"Flow", "BatchFlow", "AsyncFlow", "AsyncBatchFlow"} :
       \E ca, cb \in {"Node", "AsyncNode"} :
         /\ c \in SyncFlowClasses => ca = "Node" /\ cb = "Node"
         /\ cls = [o \in Objs |-> CASE o = "F" -> c [] o = "G" -> "Flow"
                                    [] o = "A" -> ca [] o = "B" -> cb
                                    [] OTHER -> "Node"]
         /\ \E example \in BOOLEAN :
              user = [o \in Objs |->
                        CASE o = "F" -> [fb |-> FALSE,
                                         beh |-> IF c \in {"BatchFlow", "AsyncBatchFlow"}
                                                 THEN "batch" ELSE "default"]
                          [] o = "G" -> [fb |-> FALSE, beh |-> "default"]
                          [] o = "A" -> [fb |-> FALSE,
                                         beh |-> IF example THEN "load" ELSE "step"]
                          [] o = "B" -> [fb |-> FALSE,
                                         beh |-> IF example THEN "summarize" ELSE "step"]
                          [] OTHER -> [fb |-> FALSE,
                                       beh |-> IF example THEN "default" ELSE "step"]]
    /\ maxRetries = [o \in Objs |-> 1]
    /\ wait = [o \in Objs |-> 0]
    /\ startNode = [o \in Objs |-> CASE o = "F" -> "A" [] o = "G" -> "C"
                                     [] OTHER -> NoNode]
    /\ successors = [NoSuccessors EXCEPT !["A"]["default"] = "B",
                                         !["B"]["default"] = "C"]
    /\ objs = FreshObjs
    /\ shared = EmptyStore
    /\ tasks = <<IdleTask>>
    /\ log = <<>>
    /\ nextId = 1
    /\ wires = 2

NextSeq ==
    \/ ~IsAsyncClass("F") /\ Run("F")
    \/ RunAsync("F")
    \/ \E t \in DOMAIN tasks : Resume(t)
    \/ \E t \in DOMAIN tasks : FlowPrep(t)
    \/ \E t \in DOMAIN tasks : FlowPrepAsync(t)
    \/ \E t \in DOMAIN tasks : OrchStep(t)
    \/ \E t \in DOMAIN tasks : GetNextNode(t)
    \/ \E t \in DOMAIN tasks : OrchEnd(t)
    \/ \E t \in DOMAIN tasks : FlowPost(t)
    \/ \E t \in DOMAIN tasks : FlowPostAsync(t)
    \/ \E t \in DOMAIN tasks : Prep(t)
    \/ \E t \in DOMAIN tasks : Exec(t)
    \/ \E t \in DOMAIN tasks : ExecFallback(t)
    \/ \E t \in DOMAIN tasks : Post(t)
    \/ \E t \in DOMAIN tasks : PrepAsync(t)
    \/ \E t \in DOMAIN tasks : ExecAsync(t)
    \/ \E t \in DOMAIN tasks : ExecFallbackAsync(t)
    \/ \E t \in DOMAIN tasks : PostAsync(t)

SpecSeq == InitSeq /\ [][NextSeq]_vars

(* ------------------------------ the agent ------------------------------ *)

\* docs/design_pattern/agent.mdc: decide.next(search, "search");
\* decide.next(answer, "answer"); search.next(decide, "decide");
\* new Flow(decide).  Decide's exec may throw (its "Invalid action") and is
\* given a second attempt.
decide == "A"
search == "B"
answer == "C"

InitAgent ==
    /\ impl \in {"compact", "expanded"}
    /\ cls = [o \in Objs |-> IF o \in NodeIds THEN "Node" ELSE "Flow"]
    /\ maxRetries = [o \in Objs |-> IF o = decide THEN 2 ELSE 1]
    /\ wait = [o \in Objs |-> 0]
    /\ user = [o \in Objs |->
                 CASE o = decide -> [fb |-> FALSE, beh |-> "decide"]
                   [] o = search -> [fb |-> FALSE, beh |-> "search"]
                   [] o = answer -> [fb |-> FALSE, beh |-> "answer"]
                   [] OTHER -> [fb |-> FALSE, beh |-> "default"]]
    /\ startNode = [o \in Objs |-> CASE o = "F" -> decide [] o = "G" -> answer
                                     [] OTHER -> NoNode]
    /\ successors = [NoSuccessors EXCEPT ![decide]["search"] = search,
                                         ![decide]["answer"] = answer,
                                         ![search]["decide"] = decide]
    /\ objs = FreshObjs
    /\ shared = EmptyStore
    /\ tasks = <<IdleTask>>
    /\ log = <<>>
    /\ nextId = 1
    /\ wires = 3

NextAgent ==
    \/ Run("F")
    \/ \E t \in DOMAIN tasks : FlowPrep(t)
    \/ \E t \in DOMAIN tasks : OrchStep(t)
    \/ \E t \in DOMAIN tasks : GetNextNode(t)
    \/ \E t \in DOMAIN tasks : OrchEnd(t)
    \/ \E t \in DOMAIN tasks : FlowPost(t)
    \/ \E t \in DOMAIN tasks : Prep(t)
    \/ \E t \in DOMAIN tasks : Exec(t)
    \/ \E t \in DOMAIN tasks : ExecFallback(t)
    \/ \E t \in DOMAIN tasks : Post(t)

\* run() is one synchronous call: it keeps going until it returns or throws.
SpecAgent == InitAgent /\ [][NextAgent]_vars /\ WF_vars(NextAgent)

(* ------------------------------ the log -------------------------------- *)

Sel(op) == SelectSeq(log, LAMBDA e : e.op = op)
Idx(op) == {i \in 1..Len(log) : log[i].op = op}
Finished == tasks[Main].st \in {"returned", "threw"}

(* ---------------------------- properties ------------------------------- *)

\* C1: a synchronous Node with maxRetries = K >= 1 whose exec throws on
\* every call has exec called exactly K times and only then execFallback,
\* exactly once; the i-th exec call sees this.curRetry = i - 1.
C1_RetryExhaustion ==
    (cls["A"] = "Node" /\ maxRetries["A"] >= 1) =>
        LET ex == Sel("exec")
            fb == Sel("execFallback")
            K == maxRetries["A"]
        IN  /\ \A i \in 1..Len(ex) : ex[i].cr = i - 1
            /\ Len(ex) <= K
            /\ Len(fb) <= 1
            /\ fb # <<>> =>
                  /\ Len(ex) = K
                  /\ \A i \in 1..K : ~ex[i].ok
                  /\ \A i \in Idx("exec"), j \in Idx("execFallback") : i < j
            /\ (Finished /\ \A i \in 1..Len(ex) : ~ex[i].ok) =>
                  Len(ex) = K /\ Len(fb) = 1

C1_Witness ==
    /\ cls["A"] = "Node" /\ maxRetries["A"] = 3 /\ Finished
    /\ Len(Sel("exec")) = 3 /\ Len(Sel("execFallback")) = 1
    /\ Sel("exec")[3].cr = 2

\* C2: when exec throws on calls 1..K-1 and returns on call K (K <= M),
\* exec is called exactly K times, execFallback never, and post receives
\* the value of the K-th call as execRes.
C2_RetrySuccess ==
    cls["A"] = "Node" =>
        LET ex == Sel("exec")
            po == Sel("post")
        IN  /\ \A j \in 1..Len(ex) : ex[j].ok =>
                  /\ j = Len(ex)
                  /\ Sel("execFallback") = <<>>
                  /\ \A i \in 1..Len(po) : po[i].a2 = ex[j].out
            /\ (tasks[Main].st = "returned" /\ ex # <<>> /\ ex[Len(ex)].ok) =>
                  Len(po) = 1

C2_Witness ==
    /\ cls["A"] = "Node" /\ tasks[Main].st = "returned"
    /\ Len(Sel("exec")) = 3
    /\ ~Sel("exec")[1].ok /\ ~Sel("exec")[2].ok /\ Sel("exec")[3].ok
    /\ Len(Sel("post")) = 1 /\ Sel("post")[1].a2 = "r2"

\* C3: when exec fails on the final attempt and execFallback is overridden
\* to return v, execFallback gets the prepRes exec was given and the error
\* of the final attempt, post receives v as execRes, and run returns
\* post's action.
C3_Fallback ==
    (cls["A"] = "Node" /\ user["A"].fb) =>
        LET ex == Sel("exec")
            fb == Sel("execFallback")
            po == Sel("post")
        IN  /\ \A j \in 1..Len(fb) :
                  /\ ex # <<>>
                  /\ fb[j].ok
                  /\ fb[j].a1 = ex[Len(ex)].a1
                  /\ ~ex[Len(ex)].ok /\ fb[j].a2 = ex[Len(ex)].out
                  /\ \A i \in 1..Len(po) : po[i].a2 = fb[j].out
            /\ (Finished /\ fb # <<>>) =>
                  /\ Len(po) = 1
                  /\ tasks[Main].st = "returned"
                  /\ tasks[Main].val = po[1].out

C3_Witness ==
    /\ cls["A"] = "Node" /\ user["A"].fb /\ tasks[Main].st = "returned"
    /\ Len(Sel("exec")) = 2 /\ Sel("exec")[1].out = "e1"
    /\ Sel("exec")[2].out = "e2"
    /\ Len(Sel("execFallback")) = 1 /\ Sel("execFallback")[1].a2 = "e2"
    /\ Sel("post")[1].a2 = "f1" /\ tasks[Main].val = "x"

\* C10: one lifecycle run (_run and _runAsync, compact and expanded) calls
\* prep exactly once, then the exec phase, then post exactly once; exec and
\* post are both given the value that one prep call returned.
C10_Lifecycle ==
    tasks[Main].st = "returned" =>
        LET pr == Sel("prep") \o Sel("prepAsync")
            ex == Sel("exec") \o Sel("execAsync")
            po == Sel("post") \o Sel("postAsync")
        IN  /\ Len(pr) = 1
            /\ Len(po) = 1
            /\ log[1] = pr[1]
            /\ log[Len(log)] = po[1]
            /\ po[1].a1 = pr[1].out
            /\ \A i \in 1..Len(ex) : ex[i].a1 = pr[1].out

\* The frames that enclose frame id, read off the log.
RECURSIVE Enclosing(_)
Enclosing(id) ==
    LET ps == {log[i].pid : i \in {k \in 1..Len(log) : log[k].id = id}} \ {0}
    IN  ps \cup UNION {Enclosing(q) : q \in ps}

\* The label an action is looked up under, and whether it is wired on n.
LabelOf(a) == IF a = UNDEF \/ a = NULL \/ a = "" THEN "default" ELSE a
Wired(n, a) == LabelOf(a) \in DOMAIN successors[n] /\ successors[n][LabelOf(a)] # NoNode

\* The hooks of a node or flow run as a step of a traversal.
IsStepPost(i) == log[i].op \in {"post", "postAsync"} /\ log[i].pid # 0
\* The events of the step that follows the step of event i in its traversal.
NextStepOf(i) ==
    {j \in 1..Len(log) : /\ log[j].op # "warn"
                          /\ log[j].pid = log[i].pid
                          /\ log[j].trav = log[i].trav
                          /\ log[j].step = log[i].step + 1}

\* C4: when a node reached in a Flow traversal fails exec on its final
\* attempt and execFallback is not overridden, the error leaves Flow.run
\* through every enclosing flow: the node's post, later nodes and the
\* flows' own post do not run, and what earlier nodes wrote to the store
\* stays.
C4_ErrorPropagates ==
    \A j \in 1..Len(log) :
        (log[j].op = "execFallback" /\ ~log[j].ok) =>
            /\ j = Len(log)
            /\ tasks[Main].st = "threw"
            /\ tasks[Main].val = log[j].out
            /\ log[j - 1].op = "exec" /\ log[j - 1].id = log[j].id
            /\ ~log[j - 1].ok /\ log[j - 1].out = log[j].out
            /\ \A i \in 1..Len(log) :
                  log[i].op = "post" =>
                      log[i].id \notin {log[j].id} \cup Enclosing(log[j].id)
            /\ LET posts == {i \in 1..Len(log) :
                                log[i].op = "post" /\ log[i].n \in NodeIds}
               IN  /\ shared.count = Cardinality(posts)
                   /\ \A i \in posts :
                         (\A k \in posts : k <= i) => shared.data = log[i].a2

C4_Witness ==
    /\ tasks[Main].st = "threw" /\ tasks[Main].val = "e1"
    /\ Len(log) >= 5
    /\ log[Len(log)].op = "execFallback" /\ log[Len(log)].n = "C"
    /\ Cardinality(Enclosing(log[Len(log)].id)) = 2
    /\ shared.count = 1 /\ shared.data = "r1"

\* C5: after node N's post returns action A, the next node run in the
\* traversal is the successor wired on N under A, with undefined, null and
\* "" looked up under "default"; nothing runs in between, and no successor
\* wired under another label is chosen.
C5_Successor ==
    \A i \in 1..Len(log) :
        IsStepPost(i) =>
            LET N == log[i].n
                A == log[i].out
            IN  /\ \A j \in NextStepOf(i) :
                      /\ j > i
                      /\ Wired(N, A)
                      /\ log[j].n = successors[N][LabelOf(A)]
                /\ (Wired(N, A) /\ i < Len(log)) =>
                      /\ i + 1 \in NextStepOf(i)
                      /\ log[i + 1].op = "prep"
                      /\ log[i + 1].n = successors[N][LabelOf(A)]

C5_Witness ==
    \E i \in 1..Len(log) :
        /\ IsStepPost(i) /\ log[i].n = "A" /\ log[i].out = ""
        /\ OwnKeys("A") = {"default", "x"}
        /\ successors["A"]["default"] = "G" /\ successors["A"]["x"] = "B"
        /\ i < Len(log) /\ log[i + 1].n = "G"

\* C6: when a node in a Flow returns action X and has successors wired but
\* none under X, the traversal ends without raising, no successor of the
\* node is run, a warning naming X and the wired labels is emitted, and the
\* flow's result action is X.
C6_UnmatchedAction ==
    \A i \in 1..Len(log) :
        (IsStepPost(i) /\ OwnKeys(log[i].n) # {} /\ ~Wired(log[i].n, log[i].out)) =>
            /\ NextStepOf(i) = {}
            /\ ~(tasks[Main].st = "threw" /\ tasks[Main].val = "TypeError")
            /\ i < Len(log) =>
                  /\ log[i + 1].op = "warn" /\ log[i + 1].a2 = "flow ends"
                  /\ log[i + 1].a1 = log[i].out
                  /\ log[i + 1].keys = OwnKeys(log[i].n)
            /\ \A k \in 1..Len(log) :
                  (log[k].op = "post" /\ log[k].id = log[i].pid) =>
                      /\ k > i /\ log[k - 1].op = "warn"
                      /\ log[k].a2 = log[i].out /\ log[k].out = log[i].out

\* C7: when a traversal reaches a node with no successors wired, it ends
\* normally after that node's lifecycle whatever action the node returned,
\* the flow's result is that action, and no warning is emitted.
C7_LeafEndsFlow ==
    \A i \in 1..Len(log) :
        (IsStepPost(i) /\ OwnKeys(log[i].n) = {}) =>
            /\ NextStepOf(i) = {}
            /\ ~(tasks[Main].st = "threw" /\ tasks[Main].val = "TypeError")
            /\ i < Len(log) => log[i + 1].op # "warn"
            /\ \A k \in 1..Len(log) :
                  (log[k].op = "post" /\ log[k].id = log[i].pid) =>
                      /\ k = i + 1
                      /\ log[k].a2 = log[i].out /\ log[k].out = log[i].out

\* What C6 and C7 say, for the actions that are not names every plain
\* object inherits: these hold.
C6_ForOwnNames ==
    \A i \in 1..Len(log) :
        (/\ IsStepPost(i) /\ OwnKeys(log[i].n) # {}
         /\ ~Wired(log[i].n, log[i].out)
         /\ log[i].out \notin InheritedKeys) =>
            /\ NextStepOf(i) = {}
            /\ i < Len(log) =>
                  /\ log[i + 1].op = "warn" /\ log[i + 1].a2 = "flow ends"
                  /\ log[i + 1].a1 = log[i].out
                  /\ log[i + 1].keys = OwnKeys(log[i].n)
            /\ \A k \in 1..Len(log) :
                  (log[k].op = "post" /\ log[k].id = log[i].pid) =>
                      /\ k > i /\ log[k - 1].op = "warn"
                      /\ log[k].a2 = log[i].out /\ log[k].out = log[i].out

C7_ForOwnNames ==
    \A i \in 1..Len(log) :
        (/\ IsStepPost(i) /\ OwnKeys(log[i].n) = {}
         /\ log[i].out \notin InheritedKeys) =>
            /\ NextStepOf(i) = {}
            /\ i < Len(log) => log[i + 1].op # "warn"
            /\ \A k \in 1..Len(log) :
                  (log[k].op = "post" /\ log[k].id = log[i].pid) =>
                      /\ k = i + 1
                      /\ log[k].a2 = log[i].out /\ log[k].out = log[i].out

IsPrepEv(i) == log[i].op \in {"prep", "prepAsync"}

\* The store the post of event i leaves, from what the event records.
Written(i) ==
    LET b == user[log[i].n].beh
        sh == log[i].sh
    IN  CASE b = "step" -> [sh EXCEPT !.data = log[i].a2, !.count = @ + 1]
          [] b = "load" -> [sh EXCEPT !.data = Text]
          [] b = "summarize" -> [sh EXCEPT !.summary = log[i].a2]
          [] OTHER -> sh

\* C8: in a traversal by a Flow, BatchFlow, AsyncFlow or AsyncBatchFlow the
\* prep of step N+1 begins only after the post of step N has completed and
\* sees the store that post left; a batch flow's traversals follow one
\* another; LoadData then Summarize leaves data = "abc" and
\* summary = "processed:abc".
C8_SequentialOrder ==
    /\ \A i \in 1..Len(log) :
          IsStepPost(i) =>
              /\ \A j \in NextStepOf(i) :
                    /\ j > i
                    /\ IsPrepEv(j) =>
                          /\ log[j].sh = Written(i)
                          /\ user[log[j].n].beh \in {"step", "summarize"} =>
                                log[j].out = Written(i).data
              /\ \A j \in 1..Len(log) :
                    (/\ log[j].op # "warn" /\ log[j].pid = log[i].pid
                     /\ log[j].trav > log[i].trav) => j > i
    /\ (user["A"].beh = "load" /\ tasks[Main].st = "returned"
          /\ Idx("post") \cup Idx("postAsync") # {}
          /\ \E i \in 1..Len(log) : log[i].n = "B") =>
          shared.data = Text /\ shared.summary = "processed:abc"

C8_Witness ==
    /\ cls["F"] = "AsyncBatchFlow" /\ cls["A"] = "Node" /\ cls["B"] = "AsyncNode"
    /\ user["A"].beh = "load"
    /\ tasks[Main].st = "returned"
    /\ shared.summary = "processed:abc"
    /\ \E j \in 1..Len(log) :
          /\ log[j].op = "prepAsync" /\ log[j].n = "B"
          /\ log[j].trav = 2 /\ log[j].step = 2
          /\ log[j].out = Text

\* The posts of the traversal's steps, in order.
StepPosts == SelectSeq(log, LAMBDA e : e.op = "post" /\ e.pid # 0)
PostsOf(n) == {k \in 1..Len(StepPosts) : StepPosts[k].n = n}
Searches == {k \in PostsOf(decide) : StepPosts[k].out = "search"}

\* The node that runs after the step whose post is e.
Follows(e) ==
    CASE e.n = decide /\ e.out = "search" -> search
      [] e.n = decide /\ e.out = "answer" -> answer
      [] e.n = search -> decide
      [] OTHER -> NoNode

AgentLoop ==
    /\ \A k \in 1..Len(StepPosts) :
          /\ StepPosts[k].step = k
          /\ StepPosts[k].n = IF k = 1 THEN decide ELSE Follows(StepPosts[k - 1])
    /\ \A j \in 1..Len(log) :
          (log[j].op = "prep" /\ log[j].n = decide) =>
              LET seen == Cardinality({i \in 1..(j - 1) :
                              log[i].op = "post" /\ log[i].n = search})
              IN  log[j].out = seen /\ log[j].sh.count = seen
    /\ tasks[Main].st = "returned" =>
          /\ Cardinality(PostsOf(decide)) = Cardinality(Searches) + 1
          /\ Cardinality(PostsOf(search)) = Cardinality(Searches)
          /\ Cardinality(PostsOf(answer)) = 1
          /\ StepPosts[Len(StepPosts)].n = answer
          /\ shared.count = Cardinality(Searches)

\* C9: with decide -"search"-> search, decide -"answer"-> answer and
\* search -"decide"-> decide, a run in which Decide's post returns "search"
\* n times and then "answer" runs Decide n+1 times and Search n times in
\* alternation, then Answer once, and ends; each Decide prep sees what the
\* earlier Search posts put in the store.
C9_AgentLoop == []AgentLoop /\ <>Finished

C9_Witness ==
    /\ tasks[Main].st = "returned"
    /\ Cardinality(Searches) = MaxSearches
    /\ Cardinality(PostsOf(answer)) = 1
    /\ shared.summary = "r1"

(* ---------------------- a node run outside a flow ---------------------- *)

\* new Node() / new AsyncNode() A with hooks overridden, and a Node B that A
\* may be wired to before it is run.
InitRun ==
    /\ impl \in {"compact", "expanded"}
    /\ \E c \in {"Node", "AsyncNode"} :
         cls = [o \in Objs |-> IF o = "A" THEN c
                               ELSE IF o \in NodeIds THEN "Node" ELSE "Flow"]
    /\ \E k \in 1..2 : maxRetries = [o \in Objs |-> IF o = "A" THEN k ELSE 1]
    /\ wait = [o \in Objs |-> 0]
    /\ \E fb \in BOOLEAN :
         user = [o \in Objs |-> CASE o = "A" -> [fb |-> fb, beh |-> "reads"]
                                  [] o \in NodeIds -> [fb |-> FALSE, beh |-> "step"]
                                  [] OTHER -> [fb |-> FALSE, beh |-> "default"]]
    /\ startNode = [o \in Objs |-> NoNode]
    /\ successors = NoSuccessors
    /\ objs = FreshObjs
    /\ shared = EmptyStore
    /\ tasks = <<IdleTask>>
    /\ log = <<>>
    /\ nextId = 1
    /\ wires = 0

NextRun ==
    \/ \E m \in {"B", "C"}, a \in Labels : next("A", m, a)
    \/ ~IsAsyncClass("A") /\ Run("A")
    \/ RunAsync("A")
    \/ \E t \in DOMAIN tasks : Resume(t)
    \/ \E t \in DOMAIN tasks : Prep(t)
    \/ \E t \in DOMAIN tasks : Exec(t)
    \/ \E t \in DOMAIN tasks : ExecFallback(t)
    \/ \E t \in DOMAIN tasks : Post(t)
    \/ \E t \in DOMAIN tasks : PrepAsync(t)
    \/ \E t \in DOMAIN tasks : ExecAsync(t)
    \/ \E t \in DOMAIN tasks : ExecFallbackAsync(t)
    \/ \E t \in DOMAIN tasks : PostAsync(t)

SpecRun == InitRun /\ [][NextRun]_vars

\* The hook calls logged so far, and the warnings of run / runAsync.
HookCalls == {i \in 1..Len(log) : log[i].op \notin {"warn", "wait"}}
RunWarnings == {i \in 1..Len(log) :
                  log[i].op = "warn" /\ log[i].a2 = "ignored successors"}

\* C11: run on a Node, or runAsync on an AsyncNode, makes one _run call on
\* that node: every hook call is the node's own, post is called once and
\* its action is what run returns; no hook of a wired successor is called;
\* one warning is emitted when the node has a successor and none otherwise.
C11_RunAlone ==
    tasks[Main].st # "idle" =>
        /\ \A i \in HookCalls : log[i].n = "A" /\ log[i].id = 1 /\ log[i].pid = 0
        /\ \A i, j \in Idx("post") \cup Idx("postAsync") : i = j
        /\ Cardinality(RunWarnings) = IF OwnKeys("A") # {} THEN 1 ELSE 0
        /\ \A i \in RunWarnings : \A j \in HookCalls : i < j
        /\ tasks[Main].st = "returned" =>
              /\ \E i \in Idx("post") \cup Idx("postAsync") :
                    /\ i = Len(log)
                    /\ tasks[Main].val = log[i].out
              /\ Idx("prep") \cup Idx("prepAsync") # {}
              /\ \A i \in Idx("prep") \cup Idx("prepAsync") :
                    \A j \in Idx("exec") \cup Idx("execAsync") : i < j

C11_Witness ==
    /\ cls["A"] = "AsyncNode"
    /\ tasks[Main].st = "returned" /\ tasks[Main].val = "x"
    /\ successors["A"]["x"] = "B" /\ successors["A"]["default"] = "C"
    /\ Cardinality(RunWarnings) = 1
    /\ Cardinality(Idx("postAsync")) = 1

(* ----------------------- a batch node run alone ------------------------ *)

\* new BatchNode(maxRetries) A (the tests' TestBatchNode) with or without
\* an execFallback of its own; prep lists up to MaxItems items or nothing.
InitBatch ==
    /\ impl \in {"compact", "expanded"}
    /\ cls = [o \in Objs |-> CASE o = "A" -> "BatchNode"
                               [] o \in NodeIds -> "Node"
                               [] OTHER -> "Flow"]
    /\ \E k \in 0..MaxRetries :
         maxRetries = [o \in Objs |-> IF o = "A" THEN k ELSE 1]
    /\ wait = [o \in Objs |-> 0]
    /\ \E fb \in BOOLEAN :
         user = [o \in Objs |-> IF o = "A" THEN [fb |-> fb, beh |-> "items"]
                                ELSE [fb |-> FALSE, beh |-> "default"]]
    /\ startNode = [o \in Objs |-> NoNode]
    /\ successors = NoSuccessors
    /\ objs = FreshObjs
    /\ shared = EmptyStore
    /\ tasks = <<IdleTask>>
    /\ log = <<>>
    /\ nextId = 1
    /\ wires = 0

NextBatch ==
    \/ Run("A")
    \/ \E t \in DOMAIN tasks : Prep(t)
    \/ \E t \in DOMAIN tasks : Exec(t)
    \/ \E t \in DOMAIN tasks : ExecNone(t)
    \/ \E t \in DOMAIN tasks : ExecFallback(t)
    \/ \E t \in DOMAIN tasks : Post(t)

SpecBatch == InitBatch /\ [][NextBatch]_vars

\* The list every prep call so far returned, when they all returned the
\* same one.
PrepReturned(l) ==
    Idx("prep") # {} /\ \A i \in Idx("prep") : log[i].list = l
\* The exec calls made for the item at position k.
ExecsOf(k) == {i \in Idx("exec") : log[i].item = k}
FallbacksOf(k) == {i \in Idx("execFallback") : log[i].item = k}

\* C12: a BatchNode (maxRetries >= 1) whose prep returns [x1..xn] and whose
\* exec never throws calls exec once per item in input order, and calls post
\* once, with the list of exec(xi) in that order as execRes.
C12_BatchOrder ==
    \A l \in ItemLists(MaxItems) :
        (/\ maxRetries["A"] >= 1 /\ PrepReturned(l)
         /\ \A i \in Idx("exec") : log[i].ok) =>
            LET ex == Sel("exec")
                po == Sel("post")
            IN  /\ Len(ex) <= Len(l)
                /\ \A k \in 1..Len(ex) :
                      /\ ex[k].item = k /\ ex[k].a1 = l[k]
                      /\ ex[k].out = Processed(l[k])
                /\ Sel("execFallback") = <<>>
                /\ Len(po) <= 1
                /\ tasks[Main].st # "threw"
                /\ tasks[Main].st = "returned" =>
                      /\ Len(ex) = Len(l)
                      /\ Len(po) = 1 /\ log[Len(log)] = po[1]
                      /\ po[1].list = l
                      /\ po[1].res = [k \in 1..Len(l) |-> Processed(l[k])]
                      /\ shared.results = po[1].res

C12_Witness ==
    /\ tasks[Main].st = "returned"
    /\ maxRetries["A"] = 2
    /\ PrepReturned(<<"item2", "item1">>)
    /\ \A i \in Idx("exec") : log[i].ok
    /\ shared.results = <<"processed-item2", "processed-item1">>

\* C13: a BatchNode whose prep returns an empty list calls neither exec nor
\* execFallback, and still calls post once, with an empty result list.
C13_EmptyBatch ==
    PrepReturned(<<>>) =>
        /\ Idx("exec") = {} /\ Idx("execFallback") = {}
        /\ tasks[Main].st # "threw"
        /\ Len(Sel("post")) <= 1
        /\ tasks[Main].st = "returned" =>
              /\ Len(Sel("post")) = 1
              /\ Sel("post")[1].res = <<>> /\ Sel("post")[1].list = <<>>
              /\ shared.results = <<>>

C13_Witness ==
    /\ tasks[Main].st = "returned"
    /\ \A i \in Idx("prep") : log[i].list = <<>> /\ log[i].out = "list"
    /\ Len(Sel("post")) = 1
    /\ maxRetries["A"] = 1

\* The exec calls for the item at position k, in order.
ExecSeqOf(k) == SelectSeq(log, LAMBDA e : e.op = "exec" /\ e.item = k)
\* Every one of the K attempts for the item at position k has thrown.
Exhausted(k) ==
    /\ Len(ExecSeqOf(k)) = maxRetries["A"]
    /\ \A j \in 1..Len(ExecSeqOf(k)) : ~ExecSeqOf(k)[j].ok

\* Each item of a BatchNode has a retry loop of its own.
ItemRetryLoops(l) ==
    \A k \in 1..Len(l) :
        LET ex == ExecSeqOf(k)
            K == maxRetries["A"]
        IN  /\ Len(ex) <= K
            /\ \A j \in 1..Len(ex) :
                  /\ ex[j].cr = j - 1 /\ ex[j].a1 = l[k]
                  /\ j < Len(ex) => ~ex[j].ok
            /\ Cardinality(FallbacksOf(k)) <= 1
            /\ \A i \in FallbacksOf(k) :
                  /\ Exhausted(k)
                  /\ log[i].a1 = l[k] /\ log[i].a2 = ex[K].out
                  /\ \A j \in ExecsOf(k) : j < i
            /\ \A i \in ExecsOf(k) \cup FallbacksOf(k) :
                  \A j \in 1..Len(log) :
                      (log[j].op \in {"exec", "execFallback"} /\ log[j].item > k)
                          => i < j
            /\ (Exhausted(k) /\ Finished) => Cardinality(FallbacksOf(k)) = 1

\* Where the result of the item at position k comes from.
ResultOf(k) ==
    IF FallbacksOf(k) # {}
    THEN log[CHOOSE i \in FallbacksOf(k) : TRUE].out
    ELSE ExecSeqOf(k)[Len(ExecSeqOf(k))].out

\* C14, as it holds: every item has its own retry loop of K attempts
\* followed, when all K threw, by one execFallback call for that item; when
\* the run returns, every item was processed and the result list holds, per
\* position, the item's exec value or its fallback's return value.  The run
\* throws only when an execFallback call threw, and then the items after
\* that one are not processed and post is not called.
C14_ItemIsolation ==
    \A l \in ItemLists(MaxItems) :
        (maxRetries["A"] >= 1 /\ PrepReturned(l)) =>
            /\ ItemRetryLoops(l)
            /\ tasks[Main].st = "returned" =>
                  /\ Len(Sel("post")) = 1
                  /\ Len(Sel("post")[1].res) = Len(l)
                  /\ \A k \in 1..Len(l) :
                        /\ ExecsOf(k) # {}
                        /\ Sel("post")[1].res[k] = ResultOf(k)
            /\ tasks[Main].st = "threw" =>
                  /\ log[Len(log)].op = "execFallback" /\ ~log[Len(log)].ok
                  /\ ~user["A"].fb
                  /\ Sel("post") = <<>>
                  /\ \A k \in 1..Len(l) :
                        k > log[Len(log)].item => ExecsOf(k) = {}
            /\ (user["A"].fb /\ Finished) => tasks[Main].st = "returned"

C14_Witness ==
    /\ tasks[Main].st = "returned"
    /\ maxRetries["A"] = 2 /\ user["A"].fb
    /\ PrepReturned(<<"item1", "item2">>)
    /\ Exhausted(1) /\ Cardinality(ExecsOf(2)) = 1
    /\ shared.results = <<"f1", "processed-item2">>

\* C14 as stated: an item whose K exec calls all threw has its fallback's
\* return value at its position, and the items after it are processed.
C14_AsStated ==
    \A l \in ItemLists(MaxItems) :
        (maxRetries["A"] >= 1 /\ PrepReturned(l) /\ Finished) =>
            \A k \in 1..Len(l) :
                Exhausted(k) =>
                    /\ Cardinality(FallbacksOf(k)) = 1
                    /\ Len(Sel("post")) = 1
                    /\ Sel("post")[1].res[k] = ResultOf(k)
                    /\ \A m \in (k + 1)..Len(l) : ExecsOf(m) # {}

(* ------------------------- params in flows ----------------------------- *)

\* F = new Flow(A) or new BatchFlow(A) with A >> G >> B, and G = new Flow(C)
\* or new BatchFlow(C) nested in it.  The nodes' prep reads
\* this.params.filename and their post records this.params in the store.
\* F's prep, when F is a batch flow, lists any parameter-sets; G's lists the
\* files of the directory it is given.
InitParams ==
    /\ impl \in {"compact", "expanded"}
    /\ \E cf, cg \in {"Flow", "BatchFlow"} :
         /\ cls = [o \in Objs |-> CASE o = "F" -> cf [] o = "G" -> cg
                                    [] OTHER -> "Node"]
         /\ user = [o \in Objs |->
                      CASE o = "F" -> [fb |-> FALSE,
                                       beh |-> IF cf = "BatchFlow" THEN "batch"
                                               ELSE "default"]
                        [] o = "G" -> [fb |-> FALSE,
                                       beh |-> IF cg = "BatchFlow" THEN "files"
                                               ELSE "default"]
                        [] OTHER -> [fb |-> FALSE, beh |-> "param"]]
    /\ maxRetries = [o \in Objs |-> 1]
    /\ wait = [o \in Objs |-> 0]
    /\ startNode = [o \in Objs |-> CASE o = "F" -> "A" [] o = "G" -> "C"
                                     [] OTHER -> NoNode]
    /\ successors = [NoSuccessors EXCEPT !["A"]["default"] = "G",
                                         !["G"]["default"] = "B"]
    /\ objs = FreshObjs
    /\ shared = EmptyStore
    /\ tasks = <<IdleTask>>
    /\ log = <<>>
    /\ nextId = 1
    /\ wires = 2

NextParams ==
    \/ \E x \in SettableParams : setParams(x[1], x[2])
    \/ Run("F")
    \/ \E t \in DOMAIN tasks : FlowPrep(t)
    \/ \E t \in DOMAIN tasks : OrchStep(t)
    \/ \E t \in DOMAIN tasks : GetNextNode(t)
    \/ \E t \in DOMAIN tasks : OrchEnd(t)
    \/ \E t \in DOMAIN tasks : FlowPost(t)
    \/ \E t \in DOMAIN tasks : Prep(t)
    \/ \E t \in DOMAIN tasks : Exec(t)
    \/ \E t \in DOMAIN tasks : Post(t)

SpecParams == InitParams /\ [][NextParams]_vars

\* The prep call of the flow frame with this id: it records the params the
\* flow has and the parameter-sets its prep listed.
PrepOfFrame(id) ==
    log[CHOOSE i \in 1..Len(log) : log[i].op = "prep" /\ log[i].id = id]
\* The events of nodes run by a BatchFlow frame.
InBatchFlow(i) ==
    /\ log[i].op # "warn" /\ log[i].pid # 0
    /\ cls[PrepOfFrame(log[i].pid).n] = "BatchFlow"

\* C15: a node run in a BatchFlow traversal observes, for every key, the
\* current parameter-set's value when the set has the key and the
\* BatchFlow's own value otherwise: own {type: "outer"} with set
\* {filename: "x", type: "inner"} gives type "inner" and filename "x".
C15_MergePrecedence ==
    \A i \in 1..Len(log) :
        InBatchFlow(i) =>
            LET own == PrepOfFrame(log[i].pid).par
                set == PrepOfFrame(log[i].pid).list[log[i].trav]
            IN  /\ \A k \in ParamKeys :
                      log[i].par[k] = IF set[k] # ABSENT THEN set[k] ELSE own[k]
                /\ (own.type = "outer" /\ set.filename = "x" /\ set.type = "inner")
                      => log[i].par = [filename |-> "x", type |-> "inner"]
                /\ (log[i].op = "prep" /\ log[i].n \in NodeIds)
                      => log[i].out = log[i].par.filename

C15_Witness ==
    \E i \in 1..Len(log) :
        /\ log[i].op = "prep" /\ log[i].n = "A" /\ log[i].pid = 1
        /\ cls["F"] = "BatchFlow" /\ log[i].trav = 2
        /\ PrepOfFrame(1).par = [filename |-> ABSENT, type |-> "outer"]
        /\ PrepOfFrame(1).list[1] = [filename |-> "x", type |-> "inner"]
        /\ PrepOfFrame(1).list[2] = [filename |-> "y", type |-> ABSENT]
        /\ log[i].par = [filename |-> "y", type |-> "outer"]
        /\ \E j \in 1..i : log[j].par = [filename |-> "x", type |-> "inner"]

\* What a node of the k-th traversal of a batch flow run is to see, by the
\* statement: the flow's own params under the k-th parameter-set.
DerivedFrom(own, set) ==
    [k \in ParamKeys |-> IF set[k] # ABSENT THEN set[k] ELSE own[k]]
\* The hook calls of the nodes the top flow F runs in its k-th traversal.
TraversalOf(k) ==
    {i \in 1..Len(log) : log[i].op # "warn" /\ log[i].pid = 1 /\ log[i].trav = k}

\* C16: in the k-th traversal of a BatchFlow run over [p1..pn] the prep, exec
\* and post of every node visited see the same this.params, derived from pk
\* only: a key that neither pk nor the flow itself has is absent even when
\* another parameter-set has it; the nodes recording this.params in
\* shared.results leave one group of entries per parameter-set, each holding
\* its own set's values.
C16_NoCrossContamination ==
    (cls["F"] = "BatchFlow" /\ Len(log) > 0) =>
        LET own == PrepOfFrame(1).par
            sets == PrepOfFrame(1).list
        IN  /\ \A i \in 1..Len(log) :
                  (log[i].op # "warn" /\ log[i].pid = 1) =>
                      /\ log[i].trav \in 1..Len(sets)
                      /\ \A j \in TraversalOf(log[i].trav) : log[j].par = log[i].par
                      /\ \A k \in ParamKeys :
                            (sets[log[i].trav][k] = ABSENT /\ own[k] = ABSENT)
                                => log[i].par[k] = ABSENT
                      /\ \A k \in ParamKeys :
                            sets[log[i].trav][k] # ABSENT
                                => log[i].par[k] = sets[log[i].trav][k]
            /\ (Finished /\ tasks[Main].st = "returned" /\ cls["G"] = "Flow") =>
                  /\ Len(shared.results) = 3 * Len(sets)
                  /\ \A j \in 1..Len(shared.results) :
                        shared.results[j] = DerivedFrom(own, sets[((j - 1) \div 3) + 1])

C16_Witness ==
    /\ cls["F"] = "BatchFlow" /\ cls["G"] = "Flow"
    /\ tasks[Main].st = "returned"
    /\ PrepOfFrame(1).par = NoParams
    /\ PrepOfFrame(1).list = <<[filename |-> "x", type |-> "inner"],
                               [filename |-> "y", type |-> ABSENT]>>
    /\ shared.results = <<[filename |-> "x", type |-> "inner"],
                          [filename |-> "x", type |-> "inner"],
                          [filename |-> "x", type |-> "inner"],
                          [filename |-> "y", type |-> ABSENT],
                          [filename |-> "y", type |-> ABSENT],
                          [filename |-> "y", type |-> ABSENT]>>
    /\ \E i \in TraversalOf(2) : log[i].op = "exec" /\ log[i].n = "B"

\* The events of nodes run by a frame of a plain Flow.
InFlow(i) ==
    /\ log[i].op # "warn" /\ log[i].pid # 0
    /\ cls[PrepOfFrame(log[i].pid).n] = "Flow"

\* C19: in a Flow traversal the prep, exec and post of every node see
\* this.params equal to the params the Flow has, whatever the node was given
\* with setParams before the run: with flow.setParams({filename: "doc2"}) a
\* node given doc1 works on doc2, and with nothing set on the flow a node
\* given doc1 sees no filename.
C19_FlowParamsOverwrite ==
    \A i \in 1..Len(log) :
        InFlow(i) =>
            /\ log[i].par = PrepOfFrame(log[i].pid).par
            /\ log[i].pid = 1 => log[i].par = objs["F"].params
            /\ (log[i].op = "prep" /\ log[i].n \in NodeIds /\ log[i].pid = 1)
                  => log[i].out = objs["F"].params.filename

C19_Witness ==
    /\ cls["F"] = "Flow"
    /\ objs["A"].params = [filename |-> "doc1", type |-> ABSENT]
    /\ objs["F"].params = [filename |-> "doc2", type |-> ABSENT]
    /\ \E i \in 1..Len(log) :
          /\ log[i].op = "post" /\ log[i].n = "A" /\ log[i].pid = 1
          /\ log[i].par.filename = "doc2"
    /\ \E i \in 1..Len(log) :
          log[i].op = "prep" /\ log[i].n = "A" /\ log[i].out = "doc2"

\* The hook calls made in a BatchFlow that is itself run by the traversal of
\* the top BatchFlow F: the inner flow's prep and post, and its nodes' hooks.
IsInnerFlowEv(i) ==
    /\ log[i].op # "warn" /\ log[i].pid = 1 /\ IsFlow(log[i].n)
    /\ cls["F"] = "BatchFlow" /\ cls[log[i].n] = "BatchFlow"
IsInnerNodeEv(i) ==
    /\ log[i].op # "warn" /\ log[i].pid > 1
    /\ cls["F"] = "BatchFlow" /\ cls[PrepOfFrame(log[i].pid).n] = "BatchFlow"

\* C18: with a BatchFlow in the graph of a BatchFlow, the inner flow's prep
\* sees the outer flow's params under the outer's current parameter-set, and
\* a node of an inner traversal sees, for every key, the inner set's value,
\* else the outer set's, else the outer flow's own: a key given by the outer
\* set only and one given by the inner set only are both there.
C18_NestedBatchParams ==
    LET outerOwn == PrepOfFrame(1).par
        outerSets == PrepOfFrame(1).list
    IN  /\ \A i \in 1..Len(log) :
              IsInnerFlowEv(i) =>
                  \A k \in ParamKeys :
                      log[i].par[k] = IF outerSets[log[i].trav][k] # ABSENT
                                      THEN outerSets[log[i].trav][k]
                                      ELSE outerOwn[k]
        /\ \A i \in 1..Len(log) :
              IsInnerNodeEv(i) =>
                  LET inner == PrepOfFrame(log[i].pid)
                      outerSet == outerSets[inner.trav]
                      innerSet == inner.list[log[i].trav]
                  IN  \A k \in ParamKeys :
                          log[i].par[k] =
                              IF innerSet[k] # ABSENT THEN innerSet[k]
                              ELSE IF outerSet[k] # ABSENT THEN outerSet[k]
                              ELSE outerOwn[k]

\* type comes from the outer set only, filename from the inner set, which
\* wins over the outer set's filename.
C18_Witness ==
    \E i \in 1..Len(log) :
        /\ IsInnerNodeEv(i) /\ log[i].op = "exec" /\ log[i].n = "C"
        /\ PrepOfFrame(1).par = [filename |-> ABSENT, type |-> "outer"]
        /\ PrepOfFrame(1).list[PrepOfFrame(log[i].pid).trav]
               = [filename |-> "x", type |-> "inner"]
        /\ PrepOfFrame(log[i].pid).list[log[i].trav]
               = [filename |-> "y", type |-> ABSENT]
        /\ log[i].par = [filename |-> "y", type |-> "inner"]

(* ------------------------ a flow inside a flow ------------------------- *)

\* F = new Flow(A) with A >> G, A - "x" >> B, G >> B and G - "x" >> A, where
\* G = new Flow(C) with C - "x" >> C or C >> C.  The nodes' post returns undefined or
\* "x"; G.post is the one of Flow or is overridden and returns either.
InitNested ==
    /\ impl \in {"compact", "expanded"}
    /\ cls = [o \in Objs |-> IF o \in NodeIds THEN "Node" ELSE "Flow"]
    /\ maxRetries = [o \in Objs |-> 1]
    /\ wait = [o \in Objs |-> 0]
    /\ \E b \in {"default", "route"} :
         user = [o \in Objs |-> CASE o \in NodeIds -> [fb |-> FALSE, beh |-> "step"]
                                  [] o = "G" -> [fb |-> FALSE, beh |-> b]
                                  [] OTHER -> [fb |-> FALSE, beh |-> "default"]]
    /\ startNode = [o \in Objs |-> CASE o = "F" -> "A" [] o = "G" -> "C"
                                     [] OTHER -> NoNode]
    /\ \E l \in Labels :
         successors = [NoSuccessors EXCEPT !["A"]["default"] = "G",
                                           !["A"]["x"] = "B",
                                           !["G"]["default"] = "B",
                                           !["G"]["x"] = "A",
                                           !["C"][l] = "C"]
    /\ objs = FreshObjs
    /\ shared = EmptyStore
    /\ tasks = <<IdleTask>>
    /\ log = <<>>
    /\ nextId = 1
    /\ wires = 5

NextNested ==
    \/ Run("F")
    \/ \E t \in DOMAIN tasks : FlowPrep(t)
    \/ \E t \in DOMAIN tasks : StepsLeft(t) /\ OrchStep(t)
    \/ \E t \in DOMAIN tasks : GetNextNode(t)
    \/ \E t \in DOMAIN tasks : OrchEnd(t)
    \/ \E t \in DOMAIN tasks : FlowPost(t)
    \/ \E t \in DOMAIN tasks : Prep(t)
    \/ \E t \in DOMAIN tasks : Exec(t)
    \/ \E t \in DOMAIN tasks : ExecFallback(t)
    \/ \E t \in DOMAIN tasks : Post(t)

SpecNested == InitNested /\ [][NextNested]_vars

\* The prep calls of flows run as a node of another flow.
NestedPreps ==
    {g \in 1..Len(log) : log[g].op = "prep" /\ IsFlow(log[g].n) /\ log[g].pid # 0}
\* The hook calls of the nodes the frame id runs, and the frame's post call.
InnerOf(id) == {j \in 1..Len(log) : log[j].op # "warn" /\ log[j].pid = id}
PostOfFrame(id) == {p \in 1..Len(log) : log[p].op = "post" /\ log[p].id = id}
\* The post calls of the last step the frame id has begun.
LastInnerPosts(id) ==
    {j \in InnerOf(id) : /\ log[j].op = "post"
                         /\ \A k \in InnerOf(id) :
                               <<log[k].trav, log[k].step>> = <<log[j].trav, log[j].step>>
                               \/ log[k].step < log[j].step}

\* C20: a Flow G wired as a node of a parent Flow runs as G.prep, then G's
\* whole traversal from G's start node, then G.post; the parent's next node
\* is the successor wired on G under the action G.post returned and no hook
\* of it is called before G's last inner node has finished post; G's exec
\* and execFallback are never called.
C20_NestedFlow ==
    /\ \A i \in 1..Len(log) :
          (log[i].op # "warn" /\ IsFlow(log[i].n)) => log[i].op \in {"prep", "post"}
    /\ \A g \in NestedPreps :
          LET G == log[g].n
              id == log[g].id
          IN  /\ \A j \in InnerOf(id) : j > g
              /\ g < Len(log) =>
                    /\ g + 1 \in InnerOf(id)
                    /\ log[g + 1].op = "prep" /\ log[g + 1].n = startNode[G]
                    /\ log[g + 1].step = 1
              /\ \A p \in PostOfFrame(id) :
                    /\ \A j \in InnerOf(id) : j < p
                    /\ LastInnerPosts(id) # {}
                    /\ \A e \in LastInnerPosts(id) : ~Wired(log[e].n, log[e].out)
                    /\ (Wired(G, log[p].out) /\ \E k \in p + 1..Len(log) : log[k].op # "warn") =>
                          /\ log[p + 1].op = "prep"
                          /\ log[p + 1].pid = log[g].pid
                          /\ log[p + 1].n = successors[G][LabelOf(log[p].out)]
              /\ \A j \in NextStepOf(g) :
                    /\ PostOfFrame(id) # {}
                    /\ \A p \in PostOfFrame(id) :
                          /\ j > p
                          /\ log[j].n = successors[G][LabelOf(log[p].out)]
                    /\ \A e \in InnerOf(id) : e < j
                    /\ \E e \in LastInnerPosts(id) : e < j

\* G.post is overridden and returns "x" where G's traversal, two steps of
\* C, ended with undefined: A, wired under "x", runs next, not B.
C20_Witness ==
    \E g \in NestedPreps, p \in 1..Len(log), j \in 1..Len(log) :
        /\ log[g].n = "G" /\ p \in PostOfFrame(log[g].id)
        /\ log[p].a2 = UNDEF /\ log[p].out = "x"
        /\ \E e \in InnerOf(log[g].id) : log[e].step = 2 /\ log[e].op = "post"
        /\ j \in NextStepOf(g) /\ log[j].n = "A" /\ log[j].op = "post"

(* --------------------------- batch flows ------------------------------- *)

\* F = new BatchFlow(A), new AsyncBatchFlow(A) or new
\* AsyncParallelBatchFlow(A) with A >> B; F's prep returns parameter-sets or
\* nothing.  A reads the store in prep, may throw in exec, writes the store
\* in post and returns undefined or "x"; B records this.params.  In an
\* async flow A is a Node or an AsyncNode; the compact AsyncNode, whose
\* _runAsync awaits prepAsync twice, is run by the AsyncBatchFlow.  An
\* AsyncParallelBatchFlow runs after F.setParams({ type: "outer" }).
InitBatchFlow ==
    /\ impl \in {"compact", "expanded"}
    /\ \E cf \in {"BatchFlow", "AsyncBatchFlow", "AsyncParallelBatchFlow"},
          ca \in {"Node", "AsyncNode"} :
         /\ cf = "BatchFlow" => ca = "Node"
         /\ (cf = "AsyncParallelBatchFlow" /\ impl = "compact") => ca = "Node"
         /\ cls = [o \in Objs |-> CASE o = "F" -> cf [] o = "G" -> "Flow"
                                    [] o = "A" -> ca [] OTHER -> "Node"]
    /\ maxRetries = [o \in Objs |-> 1]
    /\ wait = [o \in Objs |-> 0]
    /\ user = [o \in Objs |-> CASE o = "F" -> [fb |-> FALSE, beh |-> "sets"]
                                [] o = "G" -> [fb |-> FALSE, beh |-> "default"]
                                [] o = "A" -> [fb |-> FALSE, beh |-> "step"]
                                [] OTHER -> [fb |-> FALSE, beh |-> "param"]]
    /\ startNode = [o \in Objs |-> CASE o = "F" -> "A" [] o = "G" -> "C"
                                     [] OTHER -> NoNode]
    /\ successors = [NoSuccessors EXCEPT !["A"]["default"] = "B"]
    /\ objs = [FreshObjs EXCEPT !["F"].params =
                  IF cls["F"] = "AsyncParallelBatchFlow"
                  THEN [filename |-> ABSENT, type |-> "outer"] ELSE NoParams]
    /\ shared = EmptyStore
    /\ tasks = <<IdleTask>>
    /\ log = <<>>
    /\ nextId = 1
    /\ wires = 1

NextBatchFlow ==
    \/ ~IsAsyncClass("F") /\ Run("F")
    \/ RunAsync("F")
    \/ \E t \in DOMAIN tasks : Resume(t)
    \/ \E t \in DOMAIN tasks : FlowPrep(t)
    \/ \E t \in DOMAIN tasks : FlowPrepAsync(t)
    \/ \E t \in DOMAIN tasks : Fork(t)
    \/ \E t \in DOMAIN tasks : Join(t)
    \/ \E t \in DOMAIN tasks : JoinReject(t)
    \/ \E t \in DOMAIN tasks : OrchStep(t)
    \/ \E t \in DOMAIN tasks : GetNextNode(t)
    \/ \E t \in DOMAIN tasks : OrchEnd(t)
    \/ \E t \in DOMAIN tasks : FlowPost(t)
    \/ \E t \in DOMAIN tasks : FlowPostAsync(t)
    \/ \E t \in DOMAIN tasks : Prep(t)
    \/ \E t \in DOMAIN tasks : Exec(t)
    \/ \E t \in DOMAIN tasks : ExecFallback(t)
    \/ \E t \in DOMAIN tasks : Post(t)
    \/ \E t \in DOMAIN tasks : PrepAsync(t)
    \/ \E t \in DOMAIN tasks : ExecAsync(t)
    \/ \E t \in DOMAIN tasks : ExecFallbackAsync(t)
    \/ \E t \in DOMAIN tasks : PostAsync(t)

SpecBatchFlow == InitBatchFlow /\ [][NextBatchFlow]_vars

\* The prep and post calls of the run of F, and the hook calls of the nodes
\* of its k-th traversal.
IsPrep(i) == log[i].op \in {"prep", "prepAsync"}
IsPost(i) == log[i].op \in {"post", "postAsync"}
TopPreps == {i \in 1..Len(log) : IsPrep(i) /\ log[i].id = 1}
TopPosts == {i \in 1..Len(log) : IsPost(i) /\ log[i].id = 1}
NodeCalls == {i \in 1..Len(log) : log[i].op # "warn" /\ log[i].pid = 1}
\* The k-th traversal is whole: it began at the start node, every node it
\* began has returned from post, no step was taken twice, and its last
\* node's action has no successor.
WholeTraversal(k) ==
    LET T == {i \in NodeCalls : log[i].trav = k}
        P == {i \in T : IsPost(i)}
    IN  /\ \E i \in P : log[i].step = 1 /\ log[i].n = startNode["F"]
        /\ \A i \in T : \E j \in P : log[j].id = log[i].id /\ j >= i
        /\ \A i, j \in P : log[i].step = log[j].step => i = j
        /\ \A i \in P :
              IF Wired(log[i].n, log[i].out)
              THEN \E j \in P : /\ log[j].step = log[i].step + 1
                                /\ log[j].n = successors[log[i].n][LabelOf(log[i].out)]
              ELSE \A j \in P : log[j].step <= log[i].step

\* C17: a run of a BatchFlow, AsyncBatchFlow or AsyncParallelBatchFlow calls
\* prep once, makes one whole traversal for each parameter-set prep
\* returned, and calls post once, after the last hook call of every
\* traversal, with the list of parameter-sets as prepRes and null as
\* execRes; with an empty list, or nothing, from prep there is no traversal
\* and post is still called once.
C17_BatchFlowLifecycle ==
    /\ Cardinality(TopPreps) <= 1
    /\ Cardinality(TopPosts) <= 1
    /\ tasks[Main].st = "returned" => TopPreps # {} /\ TopPosts # {}
    /\ \A i \in NodeCalls :
          \E g \in TopPreps : g < i /\ log[i].trav \in 1..Len(log[g].list)
    /\ \A p \in TopPosts :
          \E g \in TopPreps :
              /\ g < p
              /\ log[p].a1 = "list" /\ log[p].list = log[g].list
              /\ log[p].a2 = NULL
              /\ \A i \in NodeCalls : i < p
              /\ \A k \in 1..Len(log[g].list) : WholeTraversal(k)
              /\ log[g].list = <<>> => NodeCalls = {}

\* Two traversals of an AsyncParallelBatchFlow that took turns, and post
\* after both.
C17_Witness ==
    /\ cls["F"] = "AsyncParallelBatchFlow" /\ cls["A"] = "AsyncNode"
    /\ tasks[Main].st = "returned"
    /\ \E p \in TopPosts : Len(log[p].list) = 2
    /\ \E i, j, k \in NodeCalls :
          /\ i < j /\ j < k
          /\ log[i].trav = 1 /\ log[j].trav = 2 /\ log[k].trav = 1
    /\ \E i \in NodeCalls : log[i].n = "B" /\ log[i].trav = 2 /\ IsPost(i)

\* Nothing from prep: no traversal, post once with an empty list.
C17_WitnessEmpty ==
    /\ tasks[Main].st = "returned"
    /\ \E g \in TopPreps : log[g].out = UNDEF
    /\ \E p \in TopPosts : log[p].list = <<>>
    /\ NodeCalls = {}

\* The post calls of plain Flows (class Flow run through Flow._run).
FlowPosts ==
    {p \in 1..Len(log) : log[p].op = "post" /\ cls[log[p].n] = "Flow"}

C22_PostGetsNull ==
    \A p \in 1..Len(log) :
        (log[p].op = "post" /\ IsFlow(log[p].n)) => log[p].a2 = NULL

\* C23: an AsyncNode with maxRetries = K >= 1 whose execAsync rejects on
\* every call has execAsync called exactly K times and only then
\* execFallbackAsync, exactly once; the i-th execAsync call sees
\* this.curRetry = i - 1.
C23_AsyncRetry ==
    (cls["A"] = "AsyncNode" /\ maxRetries["A"] >= 1) =>
        LET ex == Sel("execAsync")
            fb == Sel("execFallbackAsync")
            K == maxRetries["A"]
        IN  /\ \A i \in 1..Len(ex) : ex[i].cr = i - 1
            /\ Len(ex) <= K
            /\ Len(fb) <= 1
            /\ fb # <<>> =>
                  /\ Len(ex) = K
                  /\ \A i \in 1..K : ~ex[i].ok
                  /\ \A i \in Idx("execAsync"), j \in Idx("execFallbackAsync") : i < j
            /\ (Finished /\ \A i \in 1..Len(ex) : ~ex[i].ok) =>
                  Len(ex) = K /\ Len(fb) = 1

\* What holds of it: the calls are counted as in a Node, and every
\* execAsync call sees this.curRetry = 0.
C23_CountsOnly ==
    (cls["A"] = "AsyncNode" /\ maxRetries["A"] >= 1) =>
        LET ex == Sel("execAsync")
            fb == Sel("execFallbackAsync")
            K == maxRetries["A"]
        IN  /\ \A i \in 1..Len(ex) : ex[i].cr = 0
            /\ Len(ex) <= K
            /\ Len(fb) <= 1
            /\ fb # <<>> =>
                  /\ Len(ex) = K
                  /\ \A i \in 1..K : ~ex[i].ok
                  /\ \A i \in Idx("execAsync"), j \in Idx("execFallbackAsync") : i < j
            /\ (Finished /\ \A i \in 1..Len(ex) : ~ex[i].ok) =>
                  Len(ex) = K /\ Len(fb) = 1

(* ------------------- an async batch node run alone -------------------- *)

\* new AsyncBatchNode(maxRetries) or new AsyncParallelBatchNode(maxRetries)
\* A, with one or two attempts per item and with or without an
\* execFallbackAsync of its own; prepAsync returns what the store lists, up
\* to MaxItems items or nothing, the same at each call.
InitAsyncBatch ==
    /\ impl \in {"compact", "expanded"}
    /\ \E c \in {"AsyncBatchNode", "AsyncParallelBatchNode"} :
         cls = [o \in Objs |-> CASE o = "A" -> c
                                 [] o \in NodeIds -> "Node"
                                 [] OTHER -> "Flow"]
    /\ \E k \in {1, 2} :
         maxRetries = [o \in Objs |-> IF o = "A" THEN k ELSE 1]
    /\ wait = [o \in Objs |-> 0]
    /\ \E fb \in BOOLEAN :
         user = [o \in Objs |-> IF o = "A" THEN [fb |-> fb, beh |-> "listed"]
                                ELSE [fb |-> FALSE, beh |-> "default"]]
    /\ startNode = [o \in Objs |-> NoNode]
    /\ successors = NoSuccessors
    /\ objs = FreshObjs
    /\ shared = EmptyStore
    /\ tasks = <<IdleTask>>
    /\ log = <<>>
    /\ nextId = 1
    /\ wires = 0

NextAsyncBatch ==
    \/ RunAsync("A")
    \/ \E t \in DOMAIN tasks : Resume(t)
    \/ \E t \in DOMAIN tasks : PrepAsync(t)
    \/ \E t \in DOMAIN tasks : ItemsNotIterable(t)
    \/ \E t \in DOMAIN tasks : ForkItem(t)
    \/ \E t \in DOMAIN tasks : ExecAsync(t)
    \/ \E t \in DOMAIN tasks : ExecFallbackAsync(t)
    \/ \E t \in DOMAIN tasks : ItemDone(t)
    \/ \E t \in DOMAIN tasks : AwaitItem(t)
    \/ \E t \in DOMAIN tasks : AwaitItemReject(t)
    \/ \E t \in DOMAIN tasks : JoinItems(t)
    \/ \E t \in DOMAIN tasks : JoinItemsReject(t)
    \/ \E t \in DOMAIN tasks : PostAsync(t)

SpecAsyncBatch == InitAsyncBatch /\ [][NextAsyncBatch]_vars

\* The items whose _exec has been called and has not returned or thrown.
ItemsInFlight == {u \in DOMAIN tasks : u # Main /\ tasks[u].st = "running"}
\* The execAsync and execFallbackAsync calls, each made for one item.
ItemCalls == Idx("execAsync") \cup Idx("execFallbackAsync")
OneItemAtATime ==
    /\ Cardinality(ItemsInFlight) <= 1
    /\ \A i \in ItemCalls, j \in ItemCalls :
          log[i].item < log[j].item => i < j

\* C24: an AsyncBatchNode, expanded or compact, processes its items one at
\* a time in input order: the first execAsync call for item k+1 does not
\* begin before the execAsync of item k, its retries and its fallback have
\* completed, and at most one item is in flight at any time.
C24_OneItemAtATime == cls["A"] = "AsyncBatchNode" => OneItemAtATime

\* What holds of it: the expanded AsyncBatchNode does so.
C24_ExpandedOnly ==
    (cls["A"] = "AsyncBatchNode" /\ impl = "expanded") => OneItemAtATime
\* The items of the expanded AsyncBatchNode do get retried and fall back.
C24_ExpandedWitness ==
    /\ cls["A"] = "AsyncBatchNode" /\ impl = "expanded"
    /\ Finished /\ Len(tasks) = 3
    /\ \E i \in Idx("execFallbackAsync") : log[i].item = 1
    /\ \E i \in Idx("execAsync") : log[i].item = 2 /\ ~log[i].ok

\* The list prepAsync returned, and the call that settled item k: the
\* execAsync or execFallbackAsync call made for it that returned.
ItemsListed == IF Idx("prepAsync") = {} THEN <<>>
               ELSE log[CHOOSE i \in Idx("prepAsync") : TRUE].list
SettledBy(k) == {i \in ItemCalls : log[i].item = k /\ log[i].ok}
ItemsLaunched == Len(tasks) - 1
\* An execAsync call made for the item of task u has completed: the task
\* went on after its await, or is over.
CallCompleted(u) ==
    IF tasks[u].st = "running"
    THEN ~Top(u).aw /\ \E i \in ItemCalls : log[i].item = u - Main
    ELSE TRUE

\* C25: an AsyncParallelBatchNode launches the execAsync of every item
\* before any of them completes, calls postAsync only after every item has
\* completed, and hands it, for every completion order, a list that holds
\* item i's result at index i.
C25_ParallelItems ==
    cls["A"] = "AsyncParallelBatchNode" =>
        LET n == Len(ItemsListed) IN
        /\ \A i \in ItemCalls :
              Cardinality({j \in ItemCalls : j <= i}) <= n =>
                  /\ log[i].op = "execAsync"
                  /\ log[i].item = Cardinality({j \in ItemCalls : j <= i})
                  /\ log[i].a1 = ItemsListed[log[i].item]
        /\ (\E u \in DOMAIN tasks : u # Main /\ CallCompleted(u))
              => ItemsLaunched = n
        /\ \A p \in Idx("postAsync") :
              /\ \A i \in ItemCalls : i < p
              /\ ItemsLaunched = n /\ ItemsInFlight = {}
              /\ Len(log[p].res) = n
              /\ \A k \in 1..n :
                    /\ tasks[Main + k].st = "returned"
                    /\ \E i \in SettledBy(k) :
                          /\ log[p].res[k] = log[i].out
                          /\ \A j \in ItemCalls : log[j].item = k => j <= i
                    /\ log[p].res[k] \in {Processed(ItemsListed[k])}
                                          \cup FallbackVals

\* Two different items, the second completes before the first, and
\* postAsync is handed the two results in input order.
C25_Witness ==
    /\ cls["A"] = "AsyncParallelBatchNode"
    /\ ItemsListed = <<"item1", "item2">>
    /\ \E p \in Idx("postAsync") :
          /\ log[p].res = <<"processed-item1", "processed-item2">>
          /\ \E i \in SettledBy(1), j \in SettledBy(2) : j < i

\* The calls made for item k, in the order they were made.
CallsFor(k) == SelectSeq(log, LAMBDA e : e.op \in {"execAsync", "execFallbackAsync"}
                                         /\ e.item = k)
\* Item k has exhausted its attempts and has fallen back.
FellBack(k) == \E i \in Idx("execFallbackAsync") : log[i].item = k
\* The calls made for item k are those of AsyncNode._exec on that item
\* alone: at most K execAsync calls, none after one that returned, and one
\* execFallbackAsync call after K that threw.
OwnRetryLoop(k) ==
    LET c == CallsFor(k)
        K == maxRetries["A"]
    IN  /\ Len(c) <= K + 1
        /\ \A i \in 1..Len(c) :
              /\ c[i].op = (IF i <= K THEN "execAsync" ELSE "execFallbackAsync")
              /\ c[i].a1 = ItemsListed[k]
              /\ i < Len(c) => ~c[i].ok
              /\ c[i].op = "execFallbackAsync" => c[i].a2 = c[i - 1].out
\* How the task of item k stands follows from the calls made for item k.
OwnOutcome(k) ==
    LET c == CallsFor(k)
        u == Main + k
    IN  /\ tasks[u].st = "returned" =>
              c # <<>> /\ c[Len(c)].ok /\ tasks[u].val = c[Len(c)].out
        /\ tasks[u].st = "threw" =>
              /\ c # <<>> /\ ~c[Len(c)].ok
              /\ c[Len(c)].op = "execFallbackAsync"
              /\ tasks[u].val = c[Len(c)].out
        /\ tasks[u].st = "running" =>
              \/ ENABLED Resume(u)
              \/ ENABLED ExecAsync(u)
              \/ ENABLED ExecFallbackAsync(u)
              \/ ENABLED ItemDone(u)
              \/ \E v \in DOMAIN tasks : v # u /\ ~Yielded(v)

\* C26: in an AsyncParallelBatchNode an item whose execAsync exhausts its
\* retries gets execFallbackAsync called for it alone; its siblings are
\* neither cancelled nor restarted and run to completion; and when the
\* fallback returns a value, postAsync's list holds it at the item's index
\* and every sibling's own result at its index.
C26_FallbackIsolated ==
    cls["A"] = "AsyncParallelBatchNode" =>
        /\ \A k \in 1..ItemsLaunched : OwnRetryLoop(k) /\ OwnOutcome(k)
        /\ \A p \in Idx("postAsync") :
              \A k \in 1..Len(ItemsListed) :
                  LET c == CallsFor(k) IN
                  /\ c # <<>> /\ log[p].res[k] = c[Len(c)].out
                  /\ log[p].res[k] = (IF FellBack(k) THEN "f1"
                                      ELSE Processed(ItemsListed[k]))

\* The first item falls back while the second is in flight; the second
\* then returns from its one execAsync call, and postAsync gets both.
C26_Witness ==
    /\ cls["A"] = "AsyncParallelBatchNode"
    /\ ItemsListed = <<"item1", "item2">>
    /\ \E p \in Idx("postAsync") :
          /\ log[p].res = <<"f1", "processed-item2">>
          /\ \E i \in Idx("execFallbackAsync") :
                /\ log[i].item = 1
                /\ \E j \in SettledBy(2) : j > i

\* The hook calls of the nodes a flow runs, and where each stands in its
\* node's lifecycle.
StepCalls == {i \in 1..Len(log) : log[i].op \notin {"warn", "wait"}
                                  /\ log[i].pid # 0}
SyncHooks == {"prep", "exec", "execFallback", "post"}
AsyncHooks == {"prepAsync", "execAsync", "execFallbackAsync", "postAsync"}
Phase(i) ==
    CASE log[i].op \in {"prep", "prepAsync"} -> 1
      [] log[i].op \in {"exec", "execAsync"} -> 2
      [] log[i].op \in {"execFallback", "execFallbackAsync"} -> 3
      [] OTHER -> 4
\* No frame that runs a node through _run is suspended at an await.
SyncRunsInline ==
    \A t \in DOMAIN tasks : \A k \in DOMAIN tasks[t].stack :
        (tasks[t].stack[k].mode = "sync") => ~tasks[t].stack[k].aw

\* C27: an AsyncFlow over a path of Nodes and AsyncNodes runs each
\* AsyncNode through prepAsync, execAsync, postAsync and each Node through
\* prep, exec, post inline, one node at a time in path order, the next node
\* being the successor under the action the node before it returned, as in
\* a Flow.
C27_MixedAsyncFlow ==
    cls["F"] = "AsyncFlow" =>
        /\ SyncRunsInline
        /\ \A i \in StepCalls :
              /\ log[i].op \in (IF cls[log[i].n] = "AsyncNode" THEN AsyncHooks
                                ELSE SyncHooks)
              /\ log[i].step = 1 => log[i].n = startNode["F"]
              /\ log[i].step > 1 =>
                    \E p \in StepCalls :
                        /\ p < i /\ IsStepPost(p)
                        /\ log[p].step = log[i].step - 1
                        /\ log[i].n = Lookup(log[p].n, log[p].out)
              /\ Phase(i) > 1 =>
                    \E p \in StepCalls :
                        p < i /\ log[p].id = log[i].id /\ Phase(p) = 1
              /\ Phase(i) = 4 =>
                    \E e \in StepCalls :
                        /\ e < i /\ log[e].id = log[i].id /\ Phase(e) \in {2, 3}
                        /\ log[e].ok /\ log[e].out = log[i].a2
        /\ \A i, j \in StepCalls :
              i < j =>
                  /\ log[i].step <= log[j].step
                  /\ log[i].step = log[j].step =>
                        /\ log[i].id = log[j].id
                        /\ Phase(i) <= Phase(j) /\ Phase(i) < 4
        /\ tasks[Main].st = "returned" =>
              \E p \in StepCalls :
                  /\ IsStepPost(p) /\ \A j \in StepCalls : j <= p
                  /\ Lookup(log[p].n, log[p].out) = NoNode

\* A -> B -> C with A an AsyncNode and B, C Nodes, run to the end.
C27_Witness ==
    /\ cls["F"] = "AsyncFlow" /\ cls["A"] = "AsyncNode" /\ cls["B"] = "Node"
    /\ user["A"].beh = "step"
    /\ tasks[Main].st = "returned"
    /\ \E a \in Idx("postAsync"), b \in Idx("post"), c \in Idx("post") :
          /\ log[a].n = "A" /\ log[a].step = 1
          /\ log[b].n = "B" /\ log[b].step = 2
          /\ log[c].n = "C" /\ log[c].step = 3 /\ log[c].out = "x"

\* The post calls of B, which appends this.params to shared.results, in the
\* order they were made.
RecordingPosts ==
    SelectSeq(log, LAMBDA e : e.op = "post" /\ e.n = "B" /\ e.pid = 1)

\* C28: a BatchFlow or AsyncBatchFlow runs its traversals one at a time in
\* the order of the parameter-sets prep returned: no node of traversal k+1
\* starts before the last node of traversal k has returned from post, and
\* what the traversals write to the store is written in that order.
C28_TraversalsInOrder ==
    cls["F"] \in {"BatchFlow", "AsyncBatchFlow"} =>
        /\ \A i, j \in NodeCalls : log[i].trav < log[j].trav => i < j
        /\ \A j \in NodeCalls :
              log[j].trav > 1 => WholeTraversal(log[j].trav - 1)
        /\ \A j \in NodeCalls :
              log[j].sh.count =
                  Cardinality({i \in NodeCalls :
                      i < j /\ IsPost(i) /\ log[i].n = "A"})
        /\ Len(shared.results) = Len(RecordingPosts)
        /\ \A m \in 1..Len(RecordingPosts) :
              /\ shared.results[m] = RecordingPosts[m].par
              /\ \E g \in TopPreps :
                    RecordingPosts[m].par =
                        DerivedFrom(log[g].par,
                                    log[g].list[RecordingPosts[m].trav])
              /\ \A l \in 1..(m - 1) :
                    RecordingPosts[l].trav < RecordingPosts[m].trav

\* An AsyncBatchFlow over two parameter-sets with an AsyncNode first: both
\* traversals reach B, the second after the first.
C28_Witness ==
    /\ cls["F"] = "AsyncBatchFlow" /\ cls["A"] = "AsyncNode"
    /\ tasks[Main].st = "returned"
    /\ shared.results = <<[filename |-> "x", type |-> "inner"],
                          [filename |-> "y", type |-> ABSENT]>>
    /\ \E i \in NodeCalls : log[i].trav = 2 /\ log[i].op = "prepAsync"

\* The traversals that have begun, and whether one of them has gone on
\* past its first hook call.
TraversalsBegun == {log[i].trav : i \in NodeCalls}
SomeWentOn == \E i \in NodeCalls : i > 1 + Cardinality(TraversalsBegun)

\* C29: an AsyncParallelBatchFlow starts the traversals of all its
\* parameter-sets before any of them goes on past an await, and under
\* every interleaving each prepAsync, execAsync and postAsync call (and each
\* prep, exec, post call) of traversal k sees this.params equal to the
\* flow's params merged with parameter-set k, never a sibling's.
C29_ParallelParams ==
    (cls["F"] = "AsyncParallelBatchFlow" /\ Len(log) > 0) =>
        LET g == log[1] IN
        /\ g.op = "prepAsync" /\ g.id = 1 /\ g.par = objs["F"].params
        /\ \A i \in NodeCalls :
              /\ log[i].trav \in 1..Len(g.list)
              /\ log[i].par = DerivedFrom(g.par, g.list[log[i].trav])
        /\ (cls["A"] = "AsyncNode" /\ SomeWentOn) =>
              /\ Cardinality(TraversalsBegun) = Len(g.list)
              /\ \A k \in 1..Len(g.list) :
                    /\ log[1 + k].trav = k /\ log[1 + k].step = 1
                    /\ log[1 + k].op = "prepAsync"

\* Two traversals of an AsyncNode and a Node take turns: the second has
\* begun when the first goes on, the first is at B when the second is still
\* at A, and A sees the flow's own type in the second and the set's in the
\* first.
C29_Witness ==
    /\ cls["F"] = "AsyncParallelBatchFlow" /\ cls["A"] = "AsyncNode"
    /\ objs["F"].params.type = "outer"
    /\ tasks[Main].st = "returned"
    /\ \E i, j, k \in NodeCalls :
          /\ i < j /\ j < k
          /\ log[i].trav = 2 /\ log[i].n = "A" /\ log[i].op = "prepAsync"
          /\ log[i].par = [filename |-> "y", type |-> "outer"]
          /\ log[j].trav = 1 /\ log[j].n = "B" /\ log[j].op = "post"
          /\ log[j].par = [filename |-> "x", type |-> "inner"]
          /\ log[k].trav = 2 /\ log[k].n = "A" /\ log[k].op = "postAsync"
          /\ log[k].par = [filename |-> "y", type |-> "outer"]

(* ------------- concurrent traversals writing one store key ------------- *)

\* F = new AsyncBatchFlow(A) or new AsyncParallelBatchFlow(A), whose
\* prepAsync returns parameter-sets; A is an AsyncNode that reads
\* shared.count in prepAsync, adds one in execAsync and writes the sum to
\* shared.count in postAsync.
InitRace ==
    /\ impl \in {"compact", "expanded"}
    /\ \E cf \in {"AsyncBatchFlow", "AsyncParallelBatchFlow"} :
         cls = [o \in Objs |-> CASE o = "F" -> cf [] o = "G" -> "Flow"
                                 [] o = "A" -> "AsyncNode" [] OTHER -> "Node"]
    /\ maxRetries = [o \in Objs |-> 1]
    /\ wait = [o \in Objs |-> 0]
    /\ user = [o \in Objs |-> CASE o = "F" -> [fb |-> FALSE, beh |-> "sets"]
                                [] o = "A" -> [fb |-> FALSE, beh |-> "incr"]
                                [] OTHER -> [fb |-> FALSE, beh |-> "default"]]
    /\ startNode = [o \in Objs |-> CASE o = "F" -> "A" [] o = "G" -> "C"
                                     [] OTHER -> NoNode]
    /\ successors = NoSuccessors
    /\ objs = FreshObjs
    /\ shared = EmptyStore
    /\ tasks = <<IdleTask>>
    /\ log = <<>>
    /\ nextId = 1
    /\ wires = 0

NextRace ==
    \/ RunAsync("F")
    \/ \E t \in DOMAIN tasks : Resume(t)
    \/ \E t \in DOMAIN tasks : FlowPrepAsync(t)
    \/ \E t \in DOMAIN tasks : Fork(t)
    \/ \E t \in DOMAIN tasks : Join(t)
    \/ \E t \in DOMAIN tasks : OrchStep(t)
    \/ \E t \in DOMAIN tasks : GetNextNode(t)
    \/ \E t \in DOMAIN tasks : OrchEnd(t)
    \/ \E t \in DOMAIN tasks : FlowPostAsync(t)
    \/ \E t \in DOMAIN tasks : PrepAsync(t)
    \/ \E t \in DOMAIN tasks : ExecAsync(t)
    \/ \E t \in DOMAIN tasks : PostAsync(t)

SpecRace == InitRace /\ [][NextRace]_vars /\ WF_vars(NextRace)

\* The postAsync calls of A, each writing shared.count, and the prepAsync
\* calls that read it.
CountWrites == {i \in Idx("postAsync") : log[i].n = "A"}
CountReads == {i \in Idx("prepAsync") : log[i].n = "A"}
\* Nothing stands between a read of the store and the write that follows
\* from it: every write is a value read in the same node run plus one,
\* whatever was written meanwhile, it lands in the store, and no error and
\* no warning comes of it.
RaceUndetected ==
    /\ Idx("warn") = {}
    /\ \A t \in DOMAIN tasks : tasks[t].st # "threw"
    /\ \A i \in 1..Len(log) : log[i].ok
    /\ \A w \in CountWrites :
          /\ \E r \in CountReads :
                /\ r < w /\ log[r].id = log[w].id
                /\ log[w].a2 = log[r].out + 1
                /\ log[r].out = log[r].sh.count
          /\ (\A v \in CountWrites : v <= w) => shared.count = log[w].a2
    /\ shared.count <= Cardinality(CountWrites)
    /\ cls["F"] = "AsyncBatchFlow" => shared.count = Cardinality(CountWrites)
RaceRunDone ==
    /\ tasks[Main].st = "returned"
    /\ \A t \in DOMAIN tasks : tasks[t].st = "returned"
    /\ \E g \in TopPreps : Cardinality(CountWrites) = Len(log[g].list)

\* C30: the engine does not lock the store.  Under an
\* AsyncParallelBatchFlow two traversals that read a key and write it back
\* after an await run unhindered whatever their interleaving, so that an
\* update can be lost; the run raises no error and no warning and
\* completes.
C30_NoLocking == []RaceUndetected /\ <>RaceRunDone

\* Two traversals both read 0 and both write 1: the run has returned, two
\* writes were made and the store counts one.
C30_Witness ==
    /\ cls["F"] = "AsyncParallelBatchFlow"
    /\ RaceRunDone
    /\ Cardinality(CountWrites) = 2
    /\ shared.count = 1
    /\ Idx("warn") = {}

(* ------------- an async flow as a node of an async flow --------------- *)

\* F = new AsyncFlow(G) or new AsyncParallelBatchFlow(G) (the composition of
\* docs/core_abstraction/parallel.mdc), or F = new AsyncFlow(A) with
\* A >> G; G = new AsyncFlow(C), new AsyncBatchFlow(C) or new
\* AsyncParallelBatchFlow(C), with prepAsync overridden in the batch
\* classes; C is a Node or an AsyncNode.
InitAsyncNested ==
    /\ impl \in {"compact", "expanded"}
    /\ \E cf \in {"AsyncFlow", "AsyncParallelBatchFlow"},
          cg \in AsyncFlowClasses, cc \in {"Node", "AsyncNode"} :
         /\ cls = [o \in Objs |-> CASE o = "F" -> cf [] o = "G" -> cg
                                    [] o = "C" -> cc [] OTHER -> "Node"]
         /\ user = [o \in Objs |->
               CASE o = "F" -> [fb |-> FALSE,
                                beh |-> IF cf = "AsyncFlow" THEN "default"
                                        ELSE "sets"]
                 [] o = "G" -> [fb |-> FALSE,
                                beh |-> IF cg = "AsyncFlow" THEN "route"
                                        ELSE "sets"]
                 [] OTHER -> [fb |-> FALSE, beh |-> "step"]]
         /\ \E first \in {"A", "G"} :
              /\ cf # "AsyncFlow" => first = "G"
              /\ startNode = [o \in Objs |-> CASE o = "F" -> first
                                               [] o = "G" -> "C"
                                               [] OTHER -> NoNode]
    /\ maxRetries = [o \in Objs |-> 1]
    /\ wait = [o \in Objs |-> 0]
    /\ successors = [NoSuccessors EXCEPT !["A"]["default"] = "G",
                                         !["G"]["default"] = "B"]
    /\ objs = FreshObjs
    /\ shared = EmptyStore
    /\ tasks = <<IdleTask>>
    /\ log = <<>>
    /\ nextId = 1
    /\ wires = 2

NextAsyncNested ==
    \/ RunAsync("F")
    \/ \E t \in DOMAIN tasks : Resume(t)
    \/ \E t \in DOMAIN tasks : FlowPrepAsync(t)
    \/ \E t \in DOMAIN tasks : Fork(t)
    \/ \E t \in DOMAIN tasks : Join(t)
    \/ \E t \in DOMAIN tasks : JoinReject(t)
    \/ \E t \in DOMAIN tasks : FlowPrep(t)
    \/ \E t \in DOMAIN tasks : OrchStep(t)
    \/ \E t \in DOMAIN tasks : GetNextNode(t)
    \/ \E t \in DOMAIN tasks : OrchEnd(t)
    \/ \E t \in DOMAIN tasks : FlowPost(t)
    \/ \E t \in DOMAIN tasks : FlowPostAsync(t)
    \/ \E t \in DOMAIN tasks : UseRunAsync(t)
    \/ \E t \in DOMAIN tasks : Prep(t)
    \/ \E t \in DOMAIN tasks : Exec(t)
    \/ \E t \in DOMAIN tasks : ExecFallback(t)
    \/ \E t \in DOMAIN tasks : Post(t)

SpecAsyncNested == InitAsyncNested /\ [][NextAsyncNested]_vars

\* The hook calls of async flows run as a node of another flow.
NestedAsyncFlowCalls ==
    {i \in 1..Len(log) : /\ log[i].op # "warn" /\ log[i].pid # 0
                         /\ cls[log[i].n] \in AsyncFlowClasses}

\* C31: an AsyncFlow, AsyncBatchFlow or AsyncParallelBatchFlow run as a
\* node of another AsyncFlow goes through its asynchronous lifecycle:
\* prepAsync, a traversal in which its AsyncNodes run through prepAsync,
\* execAsync and postAsync, then postAsync.
C31_NestedAsyncLifecycle ==
    /\ \A i \in NestedAsyncFlowCalls : log[i].op \in {"prepAsync", "postAsync"}
    /\ \A t \in DOMAIN tasks :
          ~(tasks[t].st = "threw" /\ tasks[t].val = "Use runAsync.")

\* What holds of it: the nested flow is run through Flow._run, so that its
\* prep and post are called, its prepAsync and postAsync are not, and an
\* AsyncNode inside it throws "Use runAsync." before any of its hooks.
C31_RunsSynchronously ==
    /\ \A i \in NestedAsyncFlowCalls : log[i].op \in {"prep", "post"}
    /\ \A i \in 1..Len(log) :
          (log[i].op # "warn" /\ log[i].pid # 0 /\ log[i].n = "C") =>
              cls["C"] = "Node" /\ log[i].op \in SyncHooks
    /\ (cls["C"] = "AsyncNode" /\ Finished /\ NestedAsyncFlowCalls # {}) =>
          tasks[Main].st = "threw" /\ tasks[Main].val = "Use runAsync."

(* ------------------------------- wiring -------------------------------- *)

\* Three nodes, nothing wired; next is called with any label, the names a
\* plain object inherits among them.
InitWire ==
    /\ impl \in {"compact", "expanded"}
    /\ cls = [o \in Objs |-> IF o \in NodeIds THEN "Node" ELSE "Flow"]
    /\ maxRetries = [o \in Objs |-> 1]
    /\ wait = [o \in Objs |-> 0]
    /\ user = [o \in Objs |-> [fb |-> FALSE, beh |-> "default"]]
    /\ startNode = [o \in Objs |-> NoNode]
    /\ successors = NoSuccessors
    /\ objs = FreshObjs
    /\ shared = EmptyStore
    /\ tasks = <<IdleTask>>
    /\ log = <<>>
    /\ nextId = 1
    /\ wires = 0

NextWire ==
    \E n \in {"A", "B"}, m \in {"B", "C"}, a \in Labels \cup InheritedKeys :
        next(n, m, a)

SpecWire == InitWire /\ [][NextWire]_vars

\* One wiring call: successors[a] of one node becomes m and nothing else
\* of any successor mapping changes; a warning is logged for the labels
\* wired before the call and for those in also, and for no other.
WiringStep(also) ==
    \E n \in Objs, m \in Objs, a \in AllLabels :
        /\ successors' = [successors EXCEPT ![n][a] = m]
        /\ m # NoNode
        /\ log' = IF a \in OwnKeys(n) \cup also
                  THEN Append(log, Warning("overwriting", n, a, OwnKeys(n)))
                  ELSE log

\* C32: next(node, action) sets successors[action] to node and leaves the
\* other entries alone; wiring a label that is registered on the node
\* replaces the successor and warns, wiring a label for the first time
\* does not warn; a label has one successor at most.
C32_Wiring == [][wires' # wires => WiringStep({})]_vars

\* What holds of it: the warning follows `action in this.successors`,
\* which is also true of the names the mapping inherits.
C32_WiringInherited == [][wires' # wires => WiringStep(InheritedKeys)]_vars

(* --------------------- the store through a run ------------------------- *)

\* F = new Flow(A), BatchFlow, AsyncFlow, AsyncBatchFlow or
\* AsyncParallelBatchFlow with A >> G >> B and G = new Flow(C).  Either
\* no hook is overridden but a batch flow's prep, or every node reads the
\* store in prep and writes it in post.  A is a Node, or an AsyncNode in an
\* AsyncFlow or AsyncBatchFlow.
InitStore ==
    /\ impl \in {"compact", "expanded"}
    /\ \E cf \in FlowClasses, ca \in {"Node", "AsyncNode"} :
         /\ cf \notin {"AsyncFlow", "AsyncBatchFlow"} => ca = "Node"
         /\ cls = [o \in Objs |-> CASE o = "F" -> cf [] o = "G" -> "Flow"
                                    [] o = "A" -> ca [] OTHER -> "Node"]
    /\ maxRetries = [o \in Objs |-> 1]
    /\ wait = [o \in Objs |-> 0]
    /\ \E b \in {"default", "step"} :
         user = [o \in Objs |->
                   CASE o = "F" -> [fb |-> FALSE,
                                    beh |-> IF cls["F"] \in {"Flow", "AsyncFlow"}
                                            THEN "default" ELSE "sets"]
                     [] o = "G" -> [fb |-> FALSE, beh |-> "default"]
                     [] OTHER -> [fb |-> FALSE, beh |-> b]]
    /\ startNode = [o \in Objs |-> CASE o = "F" -> "A" [] o = "G" -> "C"
                                     [] OTHER -> NoNode]
    /\ successors = [NoSuccessors EXCEPT !["A"]["default"] = "G",
                                         !["G"]["default"] = "B"]
    /\ objs = FreshObjs
    /\ shared \in {EmptyStore, [EmptyStore EXCEPT !.data = Text]}
    /\ tasks = <<IdleTask>>
    /\ log = <<>>
    /\ nextId = 1
    /\ wires = 2

NextStore ==
    \/ ~IsAsyncClass("F") /\ Run("F")
    \/ RunAsync("F")
    \/ \E t \in DOMAIN tasks : Resume(t)
    \/ \E t \in DOMAIN tasks : FlowPrep(t)
    \/ \E t \in DOMAIN tasks : FlowPrepAsync(t)
    \/ \E t \in DOMAIN tasks : Fork(t)
    \/ \E t \in DOMAIN tasks : Join(t)
    \/ \E t \in DOMAIN tasks : JoinReject(t)
    \/ \E t \in DOMAIN tasks : OrchStep(t)
    \/ \E t \in DOMAIN tasks : GetNextNode(t)
    \/ \E t \in DOMAIN tasks : OrchEnd(t)
    \/ \E t \in DOMAIN tasks : FlowPost(t)
    \/ \E t \in DOMAIN tasks : FlowPostAsync(t)
    \/ \E t \in DOMAIN tasks : Prep(t)
    \/ \E t \in DOMAIN tasks : Exec(t)
    \/ \E t \in DOMAIN tasks : ExecFallback(t)
    \/ \E t \in DOMAIN tasks : Post(t)
    \/ \E t \in DOMAIN tasks : PrepAsync(t)
    \/ \E t \in DOMAIN tasks : ExecAsync(t)
    \/ \E t \in DOMAIN tasks : ExecFallbackAsync(t)
    \/ \E t \in DOMAIN tasks : PostAsync(t)

SpecStore == InitStore /\ [][NextStore]_vars

\* The store a hook call leaves: a post writes what Written says, any
\* other call leaves the store it saw.
StoreAfter(i) ==
    IF log[i].op \in {"post", "postAsync"} THEN Written(i) ELSE log[i].sh

\* The store the run was given.
StoreAtRun ==
    IF log = <<>> THEN shared ELSE log[1].sh

QuietHooks == \A o \in NodeIds : user[o].beh = "default"

\* Every hook call sees the store as the call before it left it, and the
\* store now is the one the last call left.
StoreSeen ==
    /\ \A i \in 2..Len(log) : log[i].sh = StoreAfter(i - 1)
    /\ log # <<>> => shared = StoreAfter(Len(log))
    /\ QuietHooks => shared = StoreAtRun

\* C33: the engine neither reads nor writes the store.  Every hook call of
\* a run, in the nodes, the nested flow and each batch traversal, sees the
\* store given to run as the hooks before it left it, and only a step that
\* is a node's post changes it; when no hook writes, the store after the
\* run is the store before it.
C33_StorePassedThrough ==
    /\ []StoreSeen
    /\ [][shared' # shared =>
            /\ Len(log') = Len(log) + 1
            /\ log'[Len(log')].op \in {"post", "postAsync"}
            /\ log'[Len(log')].n \in NodeIds]_vars

\* Runs end with the store written by the nodes of F and of G, and runs of
\* default hooks end with the store untouched after a batch of traversals.
C33_WitnessWrites ==
    /\ ~QuietHooks
    /\ shared.count >= 3
    /\ \E i \in 1..Len(log) : log[i].n = "C" /\ log[i].op = "post"

C33_WitnessQuiet ==
    /\ QuietHooks
    /\ Cardinality({i \in 1..Len(log) : log[i].n = "C"
                                        /\ log[i].op = "post"}) >= 2

C33_Witness ==
    /\ tasks[Main].st = "returned"
    /\ \/ C33_WitnessWrites
       \/ C33_WitnessQuiet

(* --------------------------- the retry delay --------------------------- *)

IsExecEv(i) == log[i].op \in {"exec", "execAsync"}

\* The zero-based number of the attempt that call i is: the exec calls of
\* the same run before it.
Attempt(i) ==
    Cardinality({j \in 1..(i - 1) : IsExecEv(j) /\ log[j].id = log[i].id})

\* Call i is an attempt that failed and is not the final one.
FailedNotFinal(i) ==
    /\ IsExecEv(i) /\ ~log[i].ok
    /\ Attempt(i) < maxRetries[log[i].n] - 1

Waits == {i \in 1..Len(log) : log[i].op = "wait"}
FailedAttempts == {i \in 1..Len(log) : IsExecEv(i) /\ ~log[i].ok}

\* The exec phase is over: an attempt succeeded, or the fallback was called.
AttemptSucceeded == \E i \in 1..Len(log) : IsExecEv(i) /\ log[i].ok
FellBackAtLast ==
    \E i \in 1..Len(log) : log[i].op \in {"execFallback", "execFallbackAsync"}

\* C34: with a delay set, a Node and an AsyncNode wait once after each
\* failed attempt that is not the final one and at no other time: a wait
\* follows such an attempt at once, nothing else is followed by a wait, k
\* failures and a success make k waits, and K failures make K - 1 waits
\* and the fallback.
C34_RetryDelay ==
    /\ \A i \in Waits :
          i > 1 /\ FailedNotFinal(i - 1) /\ log[i - 1].id = log[i].id
                /\ wait[log[i].n] > 0
    /\ \A i \in 1..Len(log) :
          (FailedNotFinal(i) /\ wait[log[i].n] > 0) =>
              i < Len(log) /\ log[i + 1].op = "wait"
    /\ \A i \in 2..Len(log) :
          log[i].op \in {"execFallback", "execFallbackAsync"} =>
              IsExecEv(i - 1) /\ ~log[i - 1].ok
    /\ wait["A"] > 0 =>
          /\ AttemptSucceeded => Cardinality(Waits) = Cardinality(FailedAttempts)
          /\ FellBackAtLast =>
                /\ Cardinality(FailedAttempts) = maxRetries["A"]
                /\ Cardinality(Waits) = maxRetries["A"] - 1

\* A run of MaxRetries attempts that all failed: MaxRetries - 1 waits, then
\* the fallback; and one whose last attempt succeeded after as many waits.
C34_WitnessExhausted ==
    /\ FellBackAtLast /\ Finished
    /\ Cardinality(Waits) = MaxRetries - 1

C34_WitnessSucceeded ==
    /\ AttemptSucceeded /\ Finished
    /\ Cardinality(Waits) = MaxRetries - 1

C34_Witness ==
    /\ cls["A"] = "AsyncNode"
    /\ C34_WitnessExhausted

(* ---------------------- one node run after another --------------------- *)

\* node.run(shared) once the run before it has returned or thrown.
RunAgain(n) ==
    /\ tasks[Main].st \in {"returned", "threw"}
    /\ nextId <= MaxRuns
    /\ tasks' = [tasks EXCEPT ![Main] =
          [stack |-> <<NewFrame(nextId, n, "sync", TRUE, objs[n].params,
                                objs[n].curRetry, 0, 0, 0)>>,
           st |-> "running", val |-> UNDEF]]
    /\ nextId' = nextId + 1
    /\ UNCHANGED <<static, successors, objs, shared, log>>

\* A = new Node(k) or new BatchNode(k), k >= 1, whose exec returns or
\* throws at each attempt and whose fallback rethrows; the Node is run up
\* to MaxRuns times, the BatchNode once.
InitRetry ==
    /\ impl \in {"compact", "expanded"}
    /\ \E c \in SyncNodeClasses :
         /\ cls = [o \in Objs |-> CASE o = "A" -> c
                                    [] o \in NodeIds -> "Node"
                                    [] OTHER -> "Flow"]
         /\ user = [o \in Objs |->
                      IF o = "A"
                      THEN [fb |-> FALSE,
                            beh |-> IF c = "BatchNode" THEN "listed" ELSE "step"]
                      ELSE [fb |-> FALSE, beh |-> "default"]]
    /\ \E k \in 1..MaxRetries :
         maxRetries = [o \in Objs |-> IF o = "A" THEN k ELSE 1]
    /\ wait = [o \in Objs |-> 0]
    /\ startNode = [o \in Objs |-> NoNode]
    /\ successors = NoSuccessors
    /\ objs = FreshObjs
    /\ shared = EmptyStore
    /\ tasks = <<IdleTask>>
    /\ log = <<>>
    /\ nextId = 1
    /\ wires = 0

NextRetry ==
    \/ Run("A")
    \/ ~IsBatchNode("A") /\ RunAgain("A")
    \/ \E t \in DOMAIN tasks : Prep(t)
    \/ \E t \in DOMAIN tasks : Exec(t)
    \/ \E t \in DOMAIN tasks : ExecFallback(t)
    \/ \E t \in DOMAIN tasks : Post(t)

SpecRetry == InitRetry /\ [][NextRetry]_vars

\* Call i is the first exec call of its run, or of its item in a batch.
FirstExecOfPhase(i) ==
    /\ log[i].op = "exec"
    /\ \A j \in 1..(i - 1) :
          ~(log[j].op = "exec" /\ log[j].id = log[i].id
                               /\ log[j].item = log[i].item)

\* C35: the first exec call of each run of a Node, and of each item of a
\* BatchNode, sees curRetry = 0, whatever the run or the item before it
\* left in it.
C35_CounterReset ==
    \A i \in 1..Len(log) : FirstExecOfPhase(i) => log[i].cr = 0

\* A run begins its exec phase after a run that went beyond its first
\* attempt; an item does after an item that did.
C35_Witness ==
    \E i, j \in 1..Len(log) :
        /\ log[i].op = "exec" /\ log[i].cr > 0
        /\ log[j].id > log[i].id
        /\ FirstExecOfPhase(j)

C35_WitnessItem ==
    \E i, j \in 1..Len(log) :
        /\ log[i].op = "exec" /\ log[i].cr > 0
        /\ log[j].id = log[i].id /\ log[j].item > log[i].item
        /\ FirstExecOfPhase(j)

(* ------------------- the nodes a flow is built from -------------------- *)

\* The nodes as a.setParams({ filename: "y", type: "outer" }) and a run of
\* A on its own that needed a second attempt left them.
WiredObjs ==
    [o \in Objs |->
       IF o \in NodeIds
       THEN [params |-> [filename |-> "y", type |-> "outer"],
             curRetry |-> IF o = "A" THEN 1 ELSE 0]
       ELSE [params |-> NoParams, curRetry |-> 0]]

\* F = new Flow(A), BatchFlow, AsyncFlow or AsyncParallelBatchFlow with
\* A >> B >> C; A = new Node(2) whose exec may throw and whose fallback
\* rethrows, B records this.params; a batch flow's prep returns
\* parameter-sets.  B is a Node, or an AsyncNode in a Flow, a BatchFlow or
\* an AsyncFlow, and then B.run(shared) may be called in the place of
\* F.run(shared).
InitClone ==
    /\ impl \in {"compact", "expanded"}
    /\ \E cf \in {"Flow", "BatchFlow", "AsyncFlow", "AsyncParallelBatchFlow"},
          cb \in {"Node", "AsyncNode"} :
         /\ cf = "AsyncParallelBatchFlow" => cb = "Node"
         /\ cls = [o \in Objs |-> CASE o = "F" -> cf [] o = "G" -> "Flow"
                                    [] o = "B" -> cb [] OTHER -> "Node"]
         /\ user = [o \in Objs |->
                      CASE o = "F" -> [fb |-> FALSE,
                                       beh |-> IF cf \in {"Flow", "AsyncFlow"}
                                               THEN "default" ELSE "sets"]
                        [] o = "A" -> [fb |-> FALSE, beh |-> "step"]
                        [] o = "B" -> [fb |-> FALSE, beh |-> "param"]
                        [] OTHER -> [fb |-> FALSE, beh |-> "default"]]
    /\ maxRetries = [o \in Objs |-> IF o = "A" THEN 2 ELSE 1]
    /\ wait = [o \in Objs |-> 0]
    /\ startNode = [o \in Objs |-> CASE o = "F" -> "A" [] o = "G" -> "C"
                                     [] OTHER -> NoNode]
    /\ successors = [NoSuccessors EXCEPT !["A"]["default"] = "B",
                                         !["B"]["default"] = "C"]
    /\ objs = WiredObjs
    /\ shared = EmptyStore
    /\ tasks = <<IdleTask>>
    /\ log = <<>>
    /\ nextId = 1
    /\ wires = 2

NextClone ==
    \/ ~IsAsyncClass("F") /\ Run("F")
    \/ IsAsyncNode("B") /\ Run("B")
    \/ RunAsync("F")
    \/ \E t \in DOMAIN tasks : UseRunAsync(t)
    \/ \E t \in DOMAIN tasks : Resume(t)
    \/ \E t \in DOMAIN tasks : FlowPrep(t)
    \/ \E t \in DOMAIN tasks : FlowPrepAsync(t)
    \/ \E t \in DOMAIN tasks : Fork(t)
    \/ \E t \in DOMAIN tasks : Join(t)
    \/ \E t \in DOMAIN tasks : JoinReject(t)
    \/ \E t \in DOMAIN tasks : OrchStep(t)
    \/ \E t \in DOMAIN tasks : GetNextNode(t)
    \/ \E t \in DOMAIN tasks : OrchEnd(t)
    \/ \E t \in DOMAIN tasks : FlowPost(t)
    \/ \E t \in DOMAIN tasks : FlowPostAsync(t)
    \/ \E t \in DOMAIN tasks : Prep(t)
    \/ \E t \in DOMAIN tasks : Exec(t)
    \/ \E t \in DOMAIN tasks : ExecFallback(t)
    \/ \E t \in DOMAIN tasks : Post(t)
    \/ \E t \in DOMAIN tasks : PrepAsync(t)
    \/ \E t \in DOMAIN tasks : ExecAsync(t)
    \/ \E t \in DOMAIN tasks : PostAsync(t)

SpecClone == InitClone /\ [][NextClone]_vars

\* C36: a run of a flow leaves params and curRetry of the nodes of its
\* graph as they were before it, at every step and so after the run,
\* whether it returns or throws, and under each kind of flow.
C36_OriginalsUntouched ==
    \A n \in NodeIds : objs[n] = WiredObjs[n]

\* A run has ended in which a step of A was given other params than A's
\* own and its exec saw curRetry = 0, where A's own is 1; and a parallel
\* batch has ended in the error of a step's fallback.
C36_Witness ==
    /\ tasks[Main].st = "returned"
    /\ \E i, j \in 1..Len(log) :
          /\ log[i].n = "A" /\ log[i].op = "exec"
          /\ log[i].cr = 0 /\ log[i].par # WiredObjs["A"].params
          /\ log[j].n = "B" /\ log[j].op = "post"

C36_WitnessThrew ==
    /\ tasks[Main].st = "threw"
    /\ cls["F"] = "AsyncParallelBatchFlow"
    /\ \E i \in 1..Len(log) :
          /\ log[i].n = "A" /\ log[i].op = "execFallback"
          /\ log[i].par # WiredObjs["A"].params

(* --------------------------- no attempts at all ------------------------ *)

ExecPhaseCalls ==
    {i \in 1..Len(log) :
        log[i].op \in {"exec", "execAsync", "execFallback", "execFallbackAsync"}}

PostCalls == {i \in 1..Len(log) : log[i].op \in {"post", "postAsync"}}

\* C37: a Node or AsyncNode constructed with maxRetries <= 0 runs: its
\* run calls neither exec nor the fallback, post is called with execRes
\* undefined, and the run returns what post returned.
C37_NoAttempts ==
    maxRetries["A"] <= 0 =>
        /\ ExecPhaseCalls = {}
        /\ \A i \in PostCalls : log[i].a2 = UNDEF
        /\ tasks[Main].st = "returned" =>
              \E i \in PostCalls : /\ \A j \in PostCalls : j = i
                                   /\ tasks[Main].val = log[i].out
        /\ tasks[Main].st = "threw" =>
              /\ cls["A"] = "AsyncNode" /\ tasks[Main].val = "Use runAsync."
              /\ log = <<>>

\* Such a run of a Node, and one of an AsyncNode, has returned.
C37_WitnessAsync ==
    /\ maxRetries["A"] < 0
    /\ cls["A"] = "AsyncNode"
    /\ tasks[Main].st = "returned"
    /\ PostCalls # {}

C37_Witness ==
    /\ maxRetries["A"] = 0
    /\ cls["A"] = "Node"
    /\ tasks[Main].st = "returned"
    /\ PostCalls # {}

(* ------------------- a hook other than exec throws --------------------- *)

\* A slip in _run: the error of prep or post is handed to the fallback.
HookThrowsCaught(t) ==
    /\ CanStep(t)
    /\ LET f == Top(t)
           hook == IF f.pc = "post" THEN "post" ELSE "prep"
           op == IF f.mode = "async" THEN hook \o "Async" ELSE hook
       IN
       /\ IsNode(f.n)
       /\ f.mode = "async" \/ ~IsAsyncNode(f.n)
       /\ f.pc \in {"prep", "prep2", "post"}
       /\ log' = Append(log, Ev(op, f, UNDEF, UNDEF, "e2", FALSE))
       /\ tasks' = SetTop(t, [f EXCEPT !.err = "e2", !.pc = "fallback"])
    /\ UNCHANGED <<static, successors, objs, shared, nextId>>

\* this.prep(shared) or this.post(shared, p, e) throws, in _run or awaited
\* in _runAsync: nothing catches the error.
HookThrows(t) ==
    /\ CanStep(t)
    /\ LET f == Top(t)
           hook == IF f.pc = "post" THEN "post" ELSE "prep"
           op == IF f.mode = "async" THEN hook \o "Async" ELSE hook
       IN
       /\ IsNode(f.n)
       /\ f.mode = "async" \/ ~IsAsyncNode(f.n)
       /\ f.pc \in {"prep", "prep2", "post"}
       /\ log' = Append(log, Ev(op, f, UNDEF, UNDEF, "e2", FALSE))
       /\ tasks' = ThrowFrom(t, "e2")
    /\ UNCHANGED <<static, successors, objs, shared, nextId>>

\* F = new Flow(A) or new AsyncFlow(A) with A >> G >> B and G = new Flow(C).
\* The nodes are constructed with maxRetries = 2; each prep and post may
\* throw, exec may throw at each attempt, and the fallback is overridden or
\* rethrows.  A is a Node, or an AsyncNode in an AsyncFlow.
InitFaulty ==
    /\ impl \in {"compact", "expanded"}
    /\ \E cf \in {"Flow", "AsyncFlow"}, ca \in {"Node", "AsyncNode"} :
         /\ cf = "Flow" => ca = "Node"
         /\ cls = [o \in Objs |-> CASE o = "F" -> cf [] o = "G" -> "Flow"
                                    [] o = "A" -> ca [] OTHER -> "Node"]
    /\ maxRetries = [o \in Objs |-> IF o \in NodeIds THEN 2 ELSE 1]
    /\ wait = [o \in Objs |-> 0]
    /\ \E fb \in BOOLEAN :
         user = [o \in Objs |-> IF o \in NodeIds
                                THEN [fb |-> fb, beh |-> "step"]
                                ELSE [fb |-> FALSE, beh |-> "default"]]
    /\ startNode = [o \in Objs |-> CASE o = "F" -> "A" [] o = "G" -> "C"
                                     [] OTHER -> NoNode]
    /\ successors = [NoSuccessors EXCEPT !["A"]["default"] = "G",
                                         !["G"]["default"] = "B"]
    /\ objs = FreshObjs
    /\ shared = EmptyStore
    /\ tasks = <<IdleTask>>
    /\ log = <<>>
    /\ nextId = 1
    /\ wires = 2

NextFaulty ==
    \/ ~IsAsyncClass("F") /\ Run("F")
    \/ RunAsync("F")
    \/ \E t \in DOMAIN tasks : Resume(t)
    \/ \E t \in DOMAIN tasks : FlowPrep(t)
    \/ \E t \in DOMAIN tasks : FlowPrepAsync(t)
    \/ \E t \in DOMAIN tasks : OrchStep(t)
    \/ \E t \in DOMAIN tasks : GetNextNode(t)
    \/ \E t \in DOMAIN tasks : OrchEnd(t)
    \/ \E t \in DOMAIN tasks : FlowPost(t)
    \/ \E t \in DOMAIN tasks : FlowPostAsync(t)
    \/ \E t \in DOMAIN tasks : HookThrows(t)
    \/ \E t \in DOMAIN tasks : Prep(t)
    \/ \E t \in DOMAIN tasks : Exec(t)
    \/ \E t \in DOMAIN tasks : ExecFallback(t)
    \/ \E t \in DOMAIN tasks : Post(t)
    \/ \E t \in DOMAIN tasks : PrepAsync(t)
    \/ \E t \in DOMAIN tasks : ExecAsync(t)
    \/ \E t \in DOMAIN tasks : ExecFallbackAsync(t)
    \/ \E t \in DOMAIN tasks : PostAsync(t)

SpecFaulty == InitFaulty /\ [][NextFaulty]_vars

\* Call i is a prep, a post or a fallback that threw.
OuterHookThrew(i) ==
    /\ ~log[i].ok
    /\ log[i].op \in {"prep", "prepAsync", "post", "postAsync",
                      "execFallback", "execFallbackAsync"}

\* C38: an error of prep, of post or of the fallback is neither retried
\* nor handed to execFallback: no call follows it, of this node or of any
\* other, of the flow it runs in or of the flow around that, and the run
\* throws that error; so after a failing prep there is no exec and no post.
C38_OnlyExecProtected ==
    \A i \in 1..Len(log) :
        OuterHookThrew(i) =>
            /\ i = Len(log)
            /\ tasks[Main].st = "threw"
            /\ tasks[Main].val = log[i].out
            /\ log[i].op \in {"prep", "prepAsync"} =>
                  \A j \in 1..Len(log) :
                      log[j].id = log[i].id => log[j].op \in {"prep", "prepAsync"}

\* The prep of C, run by the flow G inside F after A, threw.
C38_Witness ==
    /\ Len(log) > 1
    /\ OuterHookThrew(Len(log))
    /\ log[Len(log)].op = "prep" /\ log[Len(log)].n = "C"
    /\ log[1].n = "F"

\* A postAsync threw after a retried execAsync; a fallback rethrew.
C38_WitnessPost ==
    /\ Len(log) > 1
    /\ OuterHookThrew(Len(log))
    /\ log[Len(log)].op = "postAsync"
    /\ log[Len(log) - 1].op = "execAsync" /\ log[Len(log) - 1].cr = 0
    /\ \E j \in 1..Len(log) : log[j].op = "execAsync" /\ ~log[j].ok

C38_WitnessFallback ==
    /\ Len(log) > 1
    /\ OuterHookThrew(Len(log))
    /\ log[Len(log)].op = "execFallback" /\ log[Len(log)].n = "B"

(* ------------------ an AsyncNode on the synchronous path --------------- *)

\* The calls of the hooks of node n.
HookCallsOf(n) == {i \in 1..Len(log) : log[i].op # "warn" /\ log[i].n = n}

\* Call i is a post of A whose action leads the traversal to B.
LeadsToB(i) ==
    /\ log[i].n = "A" /\ log[i].op = "post"
    /\ Lookup("A", log[i].out) = "B"

\* The run is one of B.run(shared): no call of F's prep began it.
DirectRun == tasks[Main].st # "idle" /\ HookCallsOf("F") = {}

\* C39: an AsyncNode reached by node.run(shared) or by the traversal of a
\* synchronous flow throws "Use runAsync." before any of its hooks: none of
\* its hooks is ever called, the step that led to it is the last call of
\* the run, no node after it runs, and the run ends in that error.
C39_UseRunAsync ==
    ((cls["B"] = "AsyncNode" /\ ~IsAsyncClass("F")) \/ DirectRun) =>
        /\ HookCallsOf("B") = {}
        /\ HookCallsOf("C") = {}
        /\ \A i \in 1..Len(log) : LeadsToB(i) => i = Len(log)
        /\ Finished =>
              IF DirectRun \/ \E i \in 1..Len(log) : LeadsToB(i)
              THEN tasks[Main].st = "threw" /\ tasks[Main].val = "Use runAsync."
              ELSE tasks[Main].val # "Use runAsync."

\* A BatchFlow's traversal reached B after A's second attempt, and the
\* run has thrown; and B.run(shared) has thrown.
C39_Witness ==
    /\ cls["F"] = "BatchFlow" /\ cls["B"] = "AsyncNode"
    /\ tasks[Main].st = "threw" /\ tasks[Main].val = "Use runAsync."
    /\ \E i \in 1..Len(log) : LeadsToB(i)
    /\ \E i \in 1..Len(log) : log[i].n = "A" /\ log[i].op = "exec" /\ log[i].cr = 1

C39_WitnessDirect ==
    /\ DirectRun
    /\ tasks[Main].st = "threw" /\ tasks[Main].val = "Use runAsync."

(* ------------- a synchronous node among parallel traversals ------------ *)

\* F = new AsyncParallelBatchFlow(B) with B >> A: B is an AsyncNode with
\* the default hooks, A a Node that reads shared.count in prep, adds one
\* in exec and writes the sum in post.  F's prep returns parameter-sets.
\* The expanded classes are run; the compact _orchAsync is the same line.
InitAtomic ==
    /\ impl = "expanded"
    /\ cls = [o \in Objs |-> CASE o = "F" -> "AsyncParallelBatchFlow"
                               [] o = "G" -> "Flow"
                               [] o = "B" -> "AsyncNode" [] OTHER -> "Node"]
    /\ maxRetries = [o \in Objs |-> 1]
    /\ wait = [o \in Objs |-> 0]
    /\ user = [o \in Objs |-> CASE o = "F" -> [fb |-> FALSE, beh |-> "sets"]
                                [] o = "A" -> [fb |-> FALSE, beh |-> "incr"]
                                [] OTHER -> [fb |-> FALSE, beh |-> "default"]]
    /\ startNode = [o \in Objs |-> CASE o = "F" -> "B" [] o = "G" -> "C"
                                     [] OTHER -> NoNode]
    /\ successors = [NoSuccessors EXCEPT !["B"]["default"] = "A"]
    /\ objs = FreshObjs
    /\ shared = EmptyStore
    /\ tasks = <<IdleTask>>
    /\ log = <<>>
    /\ nextId = 1
    /\ wires = 1

NextAtomic ==
    \/ RunAsync("F")
    \/ \E t \in DOMAIN tasks : Resume(t)
    \/ \E t \in DOMAIN tasks : FlowPrepAsync(t)
    \/ \E t \in DOMAIN tasks : Fork(t)
    \/ \E t \in DOMAIN tasks : Join(t)
    \/ \E t \in DOMAIN tasks : OrchStep(t)
    \/ \E t \in DOMAIN tasks : GetNextNode(t)
    \/ \E t \in DOMAIN tasks : OrchEnd(t)
    \/ \E t \in DOMAIN tasks : FlowPostAsync(t)
    \/ \E t \in DOMAIN tasks : Prep(t)
    \/ \E t \in DOMAIN tasks : Exec(t)
    \/ \E t \in DOMAIN tasks : Post(t)
    \/ \E t \in DOMAIN tasks : PrepAsync(t)
    \/ \E t \in DOMAIN tasks : ExecAsync(t)
    \/ \E t \in DOMAIN tasks : PostAsync(t)

SpecAtomic == InitAtomic /\ [][NextAtomic]_vars

\* The calls of one run of the synchronous node stand together in the log:
\* between two of them there is no call of any other run.
SyncLifecycleAtomic ==
    \A i, j \in HookCallsOf("A") :
        (i < j /\ log[i].id = log[j].id) =>
            \A k \in i..j : log[k].id = log[i].id

\* Calls of two traversals alternate: one of them has calls on both sides
\* of a call of another.
Interleaved(i, k, j) ==
    /\ i < k /\ k < j
    /\ log[i].pid = 1 /\ log[k].pid = 1 /\ log[j].pid = 1
    /\ log[i].trav = log[j].trav /\ log[k].trav # log[i].trav

\* C40: under an AsyncParallelBatchFlow the prep, exec and post of a
\* synchronous node run with no step of a sibling traversal between them,
\* so each of its runs adds one to the count it read and no update is
\* lost; a traversal's call is followed by a sibling's only when it is an
\* asynchronous node's, which awaits, or the traversal's last.
C40_SyncAtomic ==
    /\ SyncLifecycleAtomic
    /\ \A i \in HookCallsOf("A") :
          log[i].op = "post" => log[i].a2 = log[i].sh.count + 1
    /\ shared.count =
          Cardinality({i \in HookCallsOf("A") : log[i].op = "post"})
    /\ \A i \in 1..(Len(log) - 1) :
          (/\ log[i].pid = 1 /\ log[i + 1].pid = 1
           /\ log[i].trav # log[i + 1].trav) =>
              \/ log[i].n = "B"
              \/ \A k \in (i + 1)..Len(log) : log[k].trav # log[i].trav

\* Two traversals alternated at B's awaits, A ran in one while the other
\* was suspended in B, and the run returned with a count of two.
C40_Witness ==
    /\ tasks[Main].st = "returned"
    /\ shared.count = 2
    /\ \E i, k, j \in HookCallsOf("B") : Interleaved(i, k, j)
    /\ \E i, j \in HookCallsOf("B"), k \in HookCallsOf("A") :
          Interleaved(i, k, j)

====
